---------------------------- MODULE Spec2Model ----------------------------
(***************************************************************************)
(* Peer matching and signaling relay of the local-development networking   *)
(* layer (shared-networking/).                                             *)
(*                                                                         *)
(* Two deployments are modelled, selected by the variable transport:       *)
(*   "localStorage"  LocalNetworkManager.js: tabs elect a host through the *)
(*                   shared key 'local-game-peers' and exchange            *)
(*                   join-request / join-accept through the shared key     *)
(*                   'local-game-signaling' (storage events);              *)
(*   "websocket"     local-server.js paired with                           *)
(*                   WebSocketNetworkManager.js.                           *)
(*                                                                         *)
(* A tab runs each of its handlers to completion, but localStorage is      *)
(* shared by all tabs without locking: every getItem and every setItem of  *)
(* the registry is a step of its own, and steps of other tabs may fall     *)
(* between a handler's read and its write.  frame[p] holds the handler     *)
(* position and the handler's local variables between two such steps.      *)
(***************************************************************************)
EXTENDS Integers, Sequences, FiniteSets, TLC

VARIABLES
    transport,            \* which signaling substrate this run uses
    now,                  \* the last value Date.now() returned
    calls,                \* findMatch() calls so far
    \* ---- manager fields (both LocalNetworkManager classes) ----
    role,                 \* this.role: "null" | "A" | "B"
    opponentId,           \* this.opponentId
    isInitiator,          \* this.isInitiator
    isSignalingConnected, \* this.isSignalingConnected
    matchmakingComplete,  \* this.matchmakingComplete
    gameConnection,       \* this.gameConnection: "null" | "open" | "closed"
    emitted,              \* scene.events: the match_found payloads emitted, in order
    \* ---- localStorage deployment ----
    peersData,            \* localStorage['local-game-peers']
    storageEvents,        \* per tab: undelivered 'storage' events, in order
    frame,                \* per tab: position and locals of the running handler
    verifyTimers,         \* per tab: pending setTimeout(verifyHostStatus, 100)
    pollIntervals,        \* per tab: live setInterval(checkHostStatus, 200)
    pollHandle,           \* per tab: this.hostPollingInterval names a live interval
    lastStamp,            \* history: timestamp of the latest host registration
    stampsDistinct,       \* history: no two host registrations share a timestamp
    left,                 \* history: per tab, disconnect() was called and findMatch() not since
    \* ---- websocket deployment ----
    clients,              \* server: the keys of `clients` (a Map), in insertion order
    client,               \* server: the client objects {role, isInitiator, opponentId}
    waitingClient,        \* server: let waitingClient (the id of the object it refers to)
    readyState,           \* per connection: ws.readyState
    socketEvents,         \* per connection: 'error' / 'close' events the server has not handled
    outbox,               \* per connection: messages the server sent, not yet handled by the client
    peerId,               \* WebSocket manager: this.peerId
    arrivals,             \* history: the senders of the find-match requests, in order
    emits,                \* websocket: emit() calls so far
    drops,                \* disconnect() calls and socket drops so far
    \* ---- negotiation session (LocalGameConnection) ----
    peerConnection,       \* this.peerConnection: "null" | "open" | "closed"
    connectionState,      \* peerConnection.connectionState
    remoteDescription,    \* peerConnection.remoteDescription: "null" | "offer" | "answer"
    localDescription,     \* peerConnection.localDescription: "null" | "offer" | "answer"
    pendingRemoteCandidates, \* this.pendingRemoteCandidates
    applied,              \* the candidates handed to addIceCandidate, in order
    queued,               \* history: the candidates ever pushed on the pending queue
    dataChannels,         \* this.dataChannels: the state of each handle, "null" if none
    isConnected,          \* this.isConnected
    connInitiator,        \* the session's this.isInitiator
    lifecycle,            \* the events the session emitted on eventEmitter, in order
    signals,              \* the messages the session handed to socket.emit, in order
    tasks,                \* suspended async handlers, in the order their awaited operation settles
    written,              \* the payloads written to the channels, in order
    returned,             \* what the last send() returned: "none" | "true" | "false"
    raised,               \* an exception left a handler of the session
    budget,               \* calls and events of each kind so far
    \* ---- WebSocket manager: connectToGame and the signals it buffers ----
    pendingOffer,         \* this.pendingOffer: "null" | "offer"
    pendingCandidates,    \* this.pendingCandidates
    connecting,           \* the position of a suspended connectToGame() call
    importing,            \* the connectToGame() calls suspended at the import of the session module
    created,              \* the sessions the manager created, oldest first: "open" | "connected" | "closed"
    handed                \* history: the offers, answers and candidates the manager handed to its session

mgrVars == <<role, opponentId, isInitiator, isSignalingConnected,
             matchmakingComplete, gameConnection, emitted>>
storeVars == <<peersData, storageEvents>>
timerVars == <<verifyTimers, pollIntervals, pollHandle>>
stampVars == <<lastStamp, stampsDistinct, left>>
localVars == <<storeVars, frame, timerVars, stampVars>>
serverVars == <<clients, client, waitingClient>>
socketVars == <<readyState, socketEvents, outbox>>
relayVars == <<serverVars, socketVars, arrivals, peerId, emits, drops>>
peerVars == <<peerConnection, connectionState, remoteDescription, localDescription,
              applied>>
channelVars == <<dataChannels, isConnected, written, returned>>
queueVars == <<pendingRemoteCandidates, queued>>
connectVars == <<pendingOffer, pendingCandidates, connecting>>
poolVars == <<importing, created>>
sessionVars == <<peerVars, channelVars, queueVars, connInitiator, lifecycle, signals,
                 tasks, raised, budget, connectVars, poolVars, handed>>

----------------------------------------------------------------------------
(* Bounds of the model *)

MaxCalls == 3          \* localStorage: findMatch() and disconnect() calls in a run
MaxTicks == 1          \* clock advances in a run
TickMs == 5000         \* one clock advance, in ms
MaxPending == 2        \* undelivered storage events per tab
MaxFinds == 4          \* websocket: findMatch() calls in a run
MaxEmits == 1          \* websocket: emit() calls in a run
MaxDrops == 1          \* websocket: disconnect() calls and socket drops in a run
MaxCandidates == 3     \* session: handleCandidate() calls in a run
MaxDescriptions == 2   \* session: handleOffer() and handleAnswer() calls in a run
MaxTransitions == 2    \* session: connection state changes in a run
MaxChannelEvents == 3  \* session: channel open / close / datachannel events in a run
MaxSends == 1          \* session: send() calls and incoming channel messages in a run
MaxCloses == 2         \* session: close() calls in a run
MaxIce == 1            \* session: icecandidate events in a run
MaxSignals == 3        \* relay: signals sent in a run, numbered in the order sent
MaxSessionSignals == 2 \* localStorage: emit() calls of the sessions in a run

\* the connectToGame() calls of the game in a run
MaxConnects == 2

\* the values that are no message given to each kind of handler in a run
MaxMalformed == 1

(* Program constants *)

LivenessWindow == 10000    \* (now - p.timestamp) < 10000

\* browser tabs of the localStorage deployment, named in the order of their
\* first findMatch() call
TabOrder == <<"p1", "p2", "p3">>
Tabs == {TabOrder[i] : i \in DOMAIN TabOrder}
\* connections of the websocket deployment, named in the order the server accepts them
ConnectionOrder == <<"p1", "p2", "p3", "p4">>
Connections == {ConnectionOrder[i] : i \in DOMAIN ConnectionOrder}
Participants == Tabs \cup Connections
None == "none"

\* Date.now() never goes back: the values a call may return
Clock == {now} \cup (IF now < MaxTicks * TickMs THEN {now + TickMs} ELSE {})

----------------------------------------------------------------------------
(* Sequence helpers (Array.prototype.filter / find / findIndex) *)

Filter(s, Test(_)) == SelectSeq(s, Test)

Exists(s, Test(_)) == \E i \in DOMAIN s : Test(s[i])

FindIndex(s, Test(_)) ==
    IF Exists(s, Test)
    THEN CHOOSE i \in DOMAIN s : Test(s[i]) /\ \A j \in 1..(i-1) : ~Test(s[j])
    ELSE 0

Find(s, Test(_)) == s[FindIndex(s, Test)]

----------------------------------------------------------------------------
(* The registry 'local-game-peers' *)

HostEntry(p, t) ==
    [id |-> p, active |-> TRUE, timestamp |-> t, role |-> "A",
     lookingForMatch |-> TRUE, matchedWith |-> None]

GuestEntry(p, t, host) ==
    [id |-> p, active |-> TRUE, timestamp |-> t, role |-> "B",
     lookingForMatch |-> FALSE, matchedWith |-> host]

\* const peers = peersData ? JSON.parse(peersData) : []
Peers == IF peersData.present THEN peersData.peers ELSE <<>>

Stored(peers) == [present |-> TRUE, peers |-> peers]

\* the timestamp is not looked at
ActivePeersOfAnyAge(peers, t) == Filter(peers, LAMBDA e : e.active)

\* peers.filter(p => p.active && (now - p.timestamp) < 10000)
ActivePeers(peers, t) ==
    Filter(peers, LAMBDA e : e.active /\ (t - e.timestamp) < LivenessWindow)

\* the sort is by descending timestamp
LatestHost(allHosts) ==
    allHosts[CHOOSE i \in DOMAIN allHosts :
                \A j \in DOMAIN allHosts :
                    \/ allHosts[i].timestamp > allHosts[j].timestamp
                    \/ allHosts[i].timestamp = allHosts[j].timestamp /\ i <= j]

\* allHosts.sort((a, b) => a.timestamp - b.timestamp)[0]: the sort is stable
EarliestHost(allHosts) ==
    allHosts[CHOOSE i \in DOMAIN allHosts :
                \A j \in DOMAIN allHosts :
                    \/ allHosts[i].timestamp < allHosts[j].timestamp
                    \/ allHosts[i].timestamp = allHosts[j].timestamp /\ i <= j]

\* verifyHostStatus: activePeers.filter(p => p.role === 'A' && p.lookingForMatch)
VerifyHosts(peers, t) ==
    Filter(ActivePeers(peers, t), LAMBDA e : e.role = "A" /\ e.lookingForMatch)

\* polling counts the initiators verification counts
PollHostsLooking(peers, t) ==
    Filter(ActivePeers(peers, t), LAMBDA e : e.role = "A" /\ e.lookingForMatch)

\* checkHostStatus: activePeers.filter(p => p.role === 'A')
PollHosts(peers, t) ==
    Filter(ActivePeers(peers, t), LAMBDA e : e.role = "A")

\* peers.filter(p => p.id !== this.peerId)
WithoutPeer(peers, p) == Filter(peers, LAMBDA e : e.id # p)

\* allHosts.length > 1 && earliestHost.id !== this.peerId
MustYield(allHosts, p) == Len(allHosts) > 1 /\ EarliestHost(allHosts).id # p

----------------------------------------------------------------------------
(* Handler frames *)

Idle == [pc |-> "idle", peers |-> <<>>, host |-> None, write |-> FALSE]

At(p, pc) == frame[p].pc = pc

Goto(p, pc, peers, host, write) ==
    frame' = [frame EXCEPT ![p] = [pc |-> pc, peers |-> peers, host |-> host,
                                   write |-> write]]

Return(p) == frame' = [frame EXCEPT ![p] = Idle]

----------------------------------------------------------------------------
(* emitSignalingMessage (LocalNetworkManager): targetPeer is the sender's  *)
(* opponentId at the time of the call.  The write raises a 'storage' event *)
(* in every other tab; the listener (lines 39-50) hands the value to       *)
(* handleSignalingMessage only in the tab it targets, and the removal      *)
(* 100 ms later (newValue null) fails in its try block, so only events     *)
(* that pass the listener are queued.  The stored value itself is never    *)
(* read back (no getItem of this key exists), so only the events are state.*)

Message(type, from, target) == [type |-> type, fromPeer |-> from, targetPeer |-> target]

\* every other tab handles what is written
ListensToAll(q, p, message) == q # p

\* if (message.targetPeer === this.peerId), in a tab other than the writer's
Listens(q, p, message) == q # p /\ message.targetPeer = q

EmitSignalingMessage(p, type, target) ==
    /\ \A q \in Tabs : Listens(q, p, Message(type, p, target))
                            => Len(storageEvents[q]) < MaxPending
    /\ storageEvents' =
        [q \in Tabs |-> IF Listens(q, p, Message(type, p, target))
                        THEN Append(storageEvents[q], Message(type, p, target))
                        ELSE storageEvents[q]]

\* emitMatchFound: the payload handed to scene.events
MatchFoundEvent(r, opp, init) == [role |-> r, opponentId |-> opp, isInitiator |-> init]

EmitMatchFound(p) ==
    emitted' = [emitted EXCEPT ![p] =
                   Append(@, MatchFoundEvent(role[p], opponentId[p], isInitiator[p]))]

\* connectToGame: no session without an opponent
ConnectToGame(p, opp) ==
    gameConnection' = [gameConnection EXCEPT ![p] = IF opp = None THEN @ ELSE "open"]

----------------------------------------------------------------------------
(* LocalNetworkManager: findMatch -> startMatchmaking -> electLeader ->    *)
(* tryRegisterAsHost.  One read of the registry (line 70).                 *)

\* if (!this.isSignalingConnected || (!this.matchmakingComplete && !this.opponentId))
StartsMatchmaking(p) ==
    ~isSignalingConnected[p] \/ (~matchmakingComplete[p] /\ opponentId[p] = None)

\* activePeers.find(p => p.role === 'A' && p.lookingForMatch)
IsLookingHost(e) == e.role = "A" /\ e.lookingForMatch

\* the tab has called findMatch() before
Started(p) == isSignalingConnected[p] \/ ~At(p, "idle")

FindMatch(p) ==
    /\ transport = "localStorage"
    /\ At(p, "idle")
    /\ calls + drops < MaxCalls
    /\ \A i, j \in DOMAIN TabOrder : i < j /\ TabOrder[j] = p => Started(TabOrder[i])
    /\ calls' = calls + 1
    /\ left' = [left EXCEPT ![p] = FALSE]
    /\ IF ~StartsMatchmaking(p)
       THEN UNCHANGED <<now, role, isInitiator, isSignalingConnected, frame>>
       ELSE \E t \in Clock :
            LET activePeers == ActivePeers(Peers, t)
                registered == Exists(activePeers, LAMBDA e : e.id = p)
                existingPeer == Find(activePeers, LAMBDA e : e.id = p)
            IN  /\ now' = t
                /\ IF registered
                   THEN /\ role' = [role EXCEPT ![p] = existingPeer.role]
                        /\ isInitiator' = [isInitiator EXCEPT ![p] = (existingPeer.role = "A")]
                        /\ isSignalingConnected' = [isSignalingConnected EXCEPT ![p] = TRUE]
                        /\ UNCHANGED frame
                   ELSE /\ IF Exists(activePeers, IsLookingHost)
                           THEN Goto(p, "joinAsGuest", <<>>,
                                     Find(activePeers, IsLookingHost).id, FALSE)
                           ELSE Goto(p, "becomeHost", <<>>, None, FALSE)
                        /\ UNCHANGED <<role, isInitiator, isSignalingConnected>>
    /\ UNCHANGED <<transport, opponentId, matchmakingComplete, gameConnection, emitted,
                   storeVars, timerVars, lastStamp, stampsDistinct, relayVars>>

(* becomeHost: read (line 114), push, write (line 127), schedule the       *)
(* verification, take role 'A'.                                            *)

BecomeHostRead(p) ==
    /\ At(p, "becomeHost")
    /\ \E t \in Clock :
        /\ now' = t
        /\ Goto(p, "becomeHostWrite", Append(Peers, HostEntry(p, t)), None, TRUE)
        /\ lastStamp' = t
        /\ stampsDistinct' = (stampsDistinct /\ t # lastStamp)
    /\ UNCHANGED <<transport, calls, mgrVars, storeVars, timerVars, left, relayVars>>

BecomeHostWrite(p) ==
    /\ At(p, "becomeHostWrite")
    /\ peersData' = Stored(frame[p].peers)
    /\ verifyTimers' = [verifyTimers EXCEPT ![p] = @ + 1]
    /\ role' = [role EXCEPT ![p] = "A"]
    /\ isInitiator' = [isInitiator EXCEPT ![p] = TRUE]
    /\ isSignalingConnected' = [isSignalingConnected EXCEPT ![p] = TRUE]
    /\ Return(p)
    /\ UNCHANGED <<transport, now, calls, opponentId, matchmakingComplete,
                   gameConnection, emitted, storageEvents, pollIntervals, pollHandle,
                   stampVars, relayVars>>

(* joinAsGuest: read (line 209), push, write (line 221), take role 'B',    *)
(* send the join-request.                                                  *)

JoinAsGuestRead(p) ==
    /\ At(p, "joinAsGuest")
    /\ \E t \in Clock :
        /\ now' = t
        /\ Goto(p, "joinAsGuestWrite", Append(Peers, GuestEntry(p, t, frame[p].host)),
                frame[p].host, TRUE)
    /\ UNCHANGED <<transport, calls, mgrVars, storeVars, timerVars, stampVars, relayVars>>

JoinAsGuestWrite(p) ==
    /\ At(p, "joinAsGuestWrite")
    /\ peersData' = Stored(frame[p].peers)
    /\ role' = [role EXCEPT ![p] = "B"]
    /\ isInitiator' = [isInitiator EXCEPT ![p] = FALSE]
    /\ opponentId' = [opponentId EXCEPT ![p] = frame[p].host]
    /\ isSignalingConnected' = [isSignalingConnected EXCEPT ![p] = TRUE]
    /\ EmitSignalingMessage(p, "join-request", frame[p].host)
    /\ Return(p)
    /\ UNCHANGED <<transport, now, calls, matchmakingComplete, gameConnection, emitted,
                   timerVars, stampVars, relayVars>>

(* verifyHostStatus, 100 ms after becomeHost: read (line 145); demote      *)
(* (switchToGuest) when another looking host registered earlier, else      *)
(* startHostPolling.                                                       *)

VerifyHostStatus(p) ==
    /\ At(p, "idle")
    /\ verifyTimers[p] > 0
    /\ verifyTimers' = [verifyTimers EXCEPT ![p] = @ - 1]
    /\ \E t \in Clock :
        LET allHosts == VerifyHosts(Peers, t)
        IN  /\ now' = t
            /\ IF MustYield(allHosts, p)
               THEN /\ Goto(p, "switchToGuest", <<>>, EarliestHost(allHosts).id, FALSE)
                    /\ UNCHANGED <<pollIntervals, pollHandle>>
               ELSE /\ pollIntervals' = [pollIntervals EXCEPT ![p] = @ + 1]
                    /\ pollHandle' = [pollHandle EXCEPT ![p] = TRUE]
                    /\ UNCHANGED frame
    /\ UNCHANGED <<transport, calls, mgrVars, storeVars, stampVars, relayVars>>

(* switchToGuest: read (line 176), replace the own registration, write     *)
(* (line 189), take role 'B', send the join-request.                       *)

SwitchToGuestRead(p) ==
    /\ At(p, "switchToGuest")
    /\ \E t \in Clock :
        /\ now' = t
        /\ Goto(p, "switchToGuestWrite",
                Append(WithoutPeer(Peers, p), GuestEntry(p, t, frame[p].host)),
                frame[p].host, TRUE)
    /\ UNCHANGED <<transport, calls, mgrVars, storeVars, timerVars, stampVars, relayVars>>

SwitchToGuestWrite(p) ==
    /\ At(p, "switchToGuestWrite")
    /\ peersData' = Stored(frame[p].peers)
    /\ role' = [role EXCEPT ![p] = "B"]
    /\ isInitiator' = [isInitiator EXCEPT ![p] = FALSE]
    /\ opponentId' = [opponentId EXCEPT ![p] = frame[p].host]
    /\ EmitSignalingMessage(p, "join-request", frame[p].host)
    /\ Return(p)
    /\ UNCHANGED <<transport, now, calls, isSignalingConnected, matchmakingComplete,
                   gameConnection, emitted, timerVars, stampVars, relayVars>>

(* checkHostStatus, every 200 ms once confirmed: stop when matchmaking is   *)
(* complete; else read (line 258) and, when an earlier host exists, remove *)
(* the own registration (write, line 278), take role 'B', send the         *)
(* join-request and register as guest (write, line 300).                   *)

\* clearInterval(this.hostPollingInterval): stops the interval the handle names
ClearInterval(p) ==
    /\ pollIntervals' = [pollIntervals EXCEPT ![p] = IF pollHandle[p] THEN @ - 1 ELSE @]
    /\ pollHandle' = [pollHandle EXCEPT ![p] = FALSE]

CheckHostStatus(p) ==
    /\ At(p, "idle")
    /\ pollIntervals[p] > 0
    /\ IF matchmakingComplete[p]
       THEN ClearInterval(p) /\ UNCHANGED <<now, frame>>
       ELSE \E t \in Clock :
            LET allHosts == PollHosts(Peers, t)
            IN  /\ now' = t
                /\ IF MustYield(allHosts, p)
                   THEN /\ ClearInterval(p)
                        /\ Goto(p, "pollRemove", WithoutPeer(Peers, p),
                                EarliestHost(allHosts).id, TRUE)
                   ELSE UNCHANGED <<pollIntervals, pollHandle, frame>>
    /\ UNCHANGED <<transport, calls, mgrVars, storeVars, verifyTimers, stampVars,
                   relayVars>>

PollRemoveWrite(p) ==
    /\ At(p, "pollRemove")
    /\ peersData' = Stored(frame[p].peers)
    /\ role' = [role EXCEPT ![p] = "B"]
    /\ isInitiator' = [isInitiator EXCEPT ![p] = FALSE]
    /\ opponentId' = [opponentId EXCEPT ![p] = frame[p].host]
    /\ EmitSignalingMessage(p, "join-request", frame[p].host)
    /\ \E t \in Clock :
        /\ now' = t
        /\ Goto(p, "pollRegister",
                Append(frame[p].peers, GuestEntry(p, t, frame[p].host)),
                frame[p].host, TRUE)
    /\ UNCHANGED <<transport, calls, isSignalingConnected, matchmakingComplete,
                   gameConnection, emitted, timerVars, stampVars, relayVars>>

PollRegisterWrite(p) ==
    /\ At(p, "pollRegister")
    /\ peersData' = Stored(frame[p].peers)
    /\ Return(p)
    /\ UNCHANGED <<transport, now, calls, mgrVars, storageEvents, timerVars,
                   stampVars, relayVars>>

(* The 'storage' listener and handleSignalingMessage *)

\* case 'join-request': if (this.role === 'A' && !this.opponentId && !this.matchmakingComplete)
\* the initiator does not look at whether it is matched already
AcceptsJoinRequestAgain(p) == role[p] = "A"

AcceptsJoinRequest(p) ==
    role[p] = "A" /\ opponentId[p] = None /\ ~matchmakingComplete[p]

\* case 'join-accept': if (this.role === 'B' && message.fromPeer === this.opponentId && !this.matchmakingComplete)
AcceptsJoinAccept(p, message) ==
    role[p] = "B" /\ message.fromPeer = opponentId[p] /\ ~matchmakingComplete[p]

\* updatePeerStatus(false): peers[peerIndex].lookingForMatch = false; .timestamp = Date.now()
UpdatedPeerStatus(peers, p, t) ==
    LET peerIndex == FindIndex(peers, LAMBDA e : e.id = p)
    IN  [peers EXCEPT ![peerIndex] = [@ EXCEPT !.lookingForMatch = FALSE, !.timestamp = t]]

\* join-request accepted: record the opponent, then updatePeerStatus reads (line 429)
OnJoinRequest(p, message) ==
    /\ opponentId' = [opponentId EXCEPT ![p] = message.fromPeer]
    /\ matchmakingComplete' = [matchmakingComplete EXCEPT ![p] = TRUE]
    /\ IF Exists(Peers, LAMBDA e : e.id = p)
       THEN \E t \in Clock :
               /\ now' = t
               /\ Goto(p, "accept", UpdatedPeerStatus(Peers, p, t), message.fromPeer, TRUE)
       ELSE /\ Goto(p, "accept", <<>>, message.fromPeer, FALSE)
            /\ UNCHANGED now
    /\ UNCHANGED <<gameConnection, emitted>>

OnJoinAccept(p) ==
    /\ matchmakingComplete' = [matchmakingComplete EXCEPT ![p] = TRUE]
    /\ EmitMatchFound(p)
    /\ ConnectToGame(p, opponentId[p])
    /\ UNCHANGED <<now, opponentId, frame>>

OnStorage(p) ==
    /\ At(p, "idle")
    /\ storageEvents[p] # <<>>
    /\ LET message == Head(storageEvents[p])
       IN  CASE message.type = "join-request" /\ AcceptsJoinRequest(p) ->
                    OnJoinRequest(p, message)
             [] message.type = "join-accept" /\ AcceptsJoinAccept(p, message) ->
                    OnJoinAccept(p)
             [] OTHER ->
                    UNCHANGED <<now, opponentId, matchmakingComplete, gameConnection,
                                emitted, frame>>
    /\ storageEvents' = [storageEvents EXCEPT ![p] = Tail(@)]
    /\ UNCHANGED <<transport, calls, role, isInitiator, isSignalingConnected, peersData,
                   timerVars, stampVars, relayVars>>

\* the rest of case 'join-request': write (line 436), join-accept, emitMatchFound,
\* connectToGame
AcceptWrite(p) ==
    /\ At(p, "accept")
    /\ peersData' = IF frame[p].write THEN Stored(frame[p].peers) ELSE peersData
    /\ EmitSignalingMessage(p, "join-accept", opponentId[p])
    /\ EmitMatchFound(p)
    /\ ConnectToGame(p, opponentId[p])
    /\ Return(p)
    /\ UNCHANGED <<transport, now, calls, role, opponentId, isInitiator,
                   isSignalingConnected, matchmakingComplete, timerVars, stampVars,
                   relayVars>>

(* disconnect (LocalNetworkManager): stop polling, read (line 571), remove *)
(* the own registration (write, line 575, only when the key exists), close *)
(* the session, reset matchmakingComplete and opponentId.                  *)

Disconnect(p) ==
    /\ transport = "localStorage"
    /\ At(p, "idle")
    /\ calls + drops < MaxCalls
    /\ drops' = drops + 1
    /\ left' = [left EXCEPT ![p] = TRUE]
    /\ ClearInterval(p)
    /\ Goto(p, "disconnect", WithoutPeer(Peers, p), None, peersData.present)
    /\ UNCHANGED <<transport, now, calls, mgrVars, storeVars, verifyTimers, lastStamp,
                   stampsDistinct, serverVars, socketVars, arrivals, peerId, emits>>

\* gameConnection.close()
Closed(session) == IF session = "null" THEN "null" ELSE "closed"

DisconnectWrite(p) ==
    /\ At(p, "disconnect")
    /\ peersData' = IF frame[p].write THEN Stored(frame[p].peers) ELSE peersData
    /\ gameConnection' = [gameConnection EXCEPT ![p] = Closed(@)]
    /\ matchmakingComplete' = [matchmakingComplete EXCEPT ![p] = FALSE]
    /\ opponentId' = [opponentId EXCEPT ![p] = None]
    /\ Return(p)
    /\ UNCHANGED <<transport, now, calls, role, isInitiator, isSignalingConnected,
                   emitted, storageEvents, timerVars, stampVars, relayVars>>

----------------------------------------------------------------------------
(* local-server.js: the relay server.                                      *)
(* clients is the Map's key order; client[c] is the object stored for c,   *)
(* which waitingClient may still refer to after clients.delete(c).         *)

NewClient == [role |-> "null", isInitiator |-> FALSE, opponentId |-> None]

ServerMessage(type, r, opp, init, from, data) ==
    [type |-> type, role |-> r, opponentId |-> opp, isInitiator |-> init,
     from |-> from, data |-> data]

ClientIdMessage(c) == ServerMessage("client-id", "null", None, FALSE, c, None)
WaitingMessage == ServerMessage("waiting", "null", None, FALSE, None, None)
PeerDisconnected == ServerMessage("peer-disconnected", "null", None, FALSE, None, None)

\* matchData / matchDataB: { type: 'match-found', role, opponentId, isInitiator, ... }
MatchFoundMessage(c) ==
    ServerMessage("match-found", c.role, c.opponentId, c.isInitiator, None, None)

\* { type: 'signal', from: clientId, data: data.data }
SignalMessage(from, data) == ServerMessage("signal", "null", None, FALSE, from, data)

\* if (x.ws.readyState === WebSocket.OPEN) x.ws.send(...)
SendIfOpen(box, c, message) ==
    IF readyState[c] = "OPEN" THEN [box EXCEPT ![c] = Append(@, message)] ELSE box

InClients(c) == \E i \in DOMAIN clients : clients[i] = c

\* clients.delete(clientId)
Deleted(c) == Filter(clients, LAMBDA x : x # c)

\* wss.on('connection'): register the client, send it its id; the client's
\* ws.onopen sets isSignalingConnected
OnConnection(c) ==
    /\ transport = "websocket"
    /\ readyState[c] = "CONNECTING"
    /\ \A i, j \in DOMAIN ConnectionOrder :
          i < j /\ ConnectionOrder[j] = c => readyState[ConnectionOrder[i]] # "CONNECTING"
    /\ clients' = Append(clients, c)
    /\ client' = [client EXCEPT ![c] = NewClient]
    /\ readyState' = [readyState EXCEPT ![c] = "OPEN"]
    /\ outbox' = [outbox EXCEPT ![c] = Append(@, ClientIdMessage(c))]
    /\ isSignalingConnected' = [isSignalingConnected EXCEPT ![c] = TRUE]
    /\ UNCHANGED <<arrivals, transport, now, calls, role, opponentId, isInitiator,
                   matchmakingComplete, gameConnection, emitted, localVars,
                   waitingClient, socketEvents, peerId, emits, drops>>

\* handleFindMatch(clientId)
PairsWithWaiting(c) == waitingClient # None /\ waitingClient # c

\* the roles of a pair the other way round
HandleFindMatchCallerFirst(c) ==
    IF PairsWithWaiting(c)
    THEN LET w == waitingClient
             playerA == [role |-> "A", isInitiator |-> TRUE, opponentId |-> w]
             playerB == [role |-> "B", isInitiator |-> FALSE, opponentId |-> c]
         IN  /\ client' = [client EXCEPT ![c] = playerA, ![w] = playerB]
             /\ outbox' = SendIfOpen(SendIfOpen(outbox, w, MatchFoundMessage(playerB)),
                                     c, MatchFoundMessage(playerA))
             /\ waitingClient' = None
    ELSE /\ waitingClient' = c
         /\ outbox' = SendIfOpen(outbox, c, WaitingMessage)
         /\ UNCHANGED client

\* the waiting slot is not emptied after a pairing
HandleFindMatchKeepsSlot(c) ==
    IF PairsWithWaiting(c)
    THEN LET w == waitingClient
             playerA == [role |-> "A", isInitiator |-> TRUE, opponentId |-> c]
             playerB == [role |-> "B", isInitiator |-> FALSE, opponentId |-> w]
         IN  /\ client' = [client EXCEPT ![w] = playerA, ![c] = playerB]
             /\ outbox' = SendIfOpen(SendIfOpen(outbox, w, MatchFoundMessage(playerA)),
                                     c, MatchFoundMessage(playerB))
             /\ UNCHANGED waitingClient
    ELSE /\ waitingClient' = c
         /\ outbox' = SendIfOpen(outbox, c, WaitingMessage)
         /\ UNCHANGED client

HandleFindMatch(c) ==
    IF PairsWithWaiting(c)
    THEN LET w == waitingClient
             playerA == [role |-> "A", isInitiator |-> TRUE, opponentId |-> c]
             playerB == [role |-> "B", isInitiator |-> FALSE, opponentId |-> w]
         IN  /\ client' = [client EXCEPT ![w] = playerA, ![c] = playerB]
             /\ outbox' = SendIfOpen(SendIfOpen(outbox, w, MatchFoundMessage(playerA)),
                                     c, MatchFoundMessage(playerB))
             /\ waitingClient' = None
    ELSE /\ waitingClient' = c
         /\ outbox' = SendIfOpen(outbox, c, WaitingMessage)
         /\ UNCHANGED client

\* handleSignal(clientId, data)
\* Array.from(clients.values()).find(c => c.id === client.opponentId)
\* the opponent's socket is not looked at
ForwardsUnchecked(c) ==
    /\ client[c].opponentId # None
    /\ InClients(client[c].opponentId)

Forwards(c) ==
    /\ client[c].opponentId # None
    /\ InClients(client[c].opponentId)
    /\ readyState[client[c].opponentId] = "OPEN"

\* the signal goes to every other open connection
HandleSignalToAll(c, data) ==
    /\ outbox' = [x \in Connections |->
                     IF x # c /\ readyState[x] = "OPEN"
                     THEN Append(outbox[x], SignalMessage(c, data)) ELSE outbox[x]]
    /\ UNCHANGED <<client, waitingClient>>

\* the signal is handled after the signals the server sent earlier
HandleSignalNewestFirst(c, data) ==
    /\ outbox' = IF Forwards(c)
                 THEN [outbox EXCEPT ![client[c].opponentId] =
                                        <<SignalMessage(c, data)>> \o @]
                 ELSE outbox
    /\ UNCHANGED <<client, waitingClient>>

HandleSignal(c, data) ==
    /\ outbox' = IF Forwards(c)
                 THEN [outbox EXCEPT ![client[c].opponentId] =
                                        Append(@, SignalMessage(c, data))]
                 ELSE outbox
    /\ UNCHANGED <<client, waitingClient>>

\* ws.on('message') -> handleMessage(clientId, data).  A socket delivers in
\* order and the sender's side of a send reads and writes nothing else, so a
\* request is handled in the step that sends it.
HandleMessage(c, data) ==
    IF ~InClients(c)
    THEN UNCHANGED <<client, waitingClient, outbox>>
    ELSE CASE data.type = "find-match" -> HandleFindMatch(c)
           [] data.type = "signal" -> HandleSignal(c, data.data)
           [] OTHER -> UNCHANGED <<client, waitingClient, outbox>>

\* ws.on('error'): clients.delete(clientId)
OnError(c) ==
    /\ socketEvents[c] # <<>>
    /\ Head(socketEvents[c]) = "error"
    /\ socketEvents' = [socketEvents EXCEPT ![c] = Tail(@)]
    /\ clients' = Deleted(c)
    /\ UNCHANGED <<arrivals, transport, now, calls, mgrVars, localVars, client, waitingClient,
                   readyState, outbox, peerId, emits, drops>>

\* ws.on('close'), lines 41-52: the client notified is the first one in
\* `clients` whose role is the opposite of the leaver's
OtherRole(r) == IF r = "A" THEN "B" ELSE "A"

HasOtherClient(c) == Exists(clients, LAMBDA x : client[x].role = OtherRole(client[c].role))

OtherClient(c) == Find(clients, LAMBDA x : client[x].role = OtherRole(client[c].role))

Notified(c) ==
    IF InClients(c) /\ client[c].role # "null" /\ HasOtherClient(c)
    THEN SendIfOpen(outbox, OtherClient(c), PeerDisconnected)
    ELSE outbox

\* the close handler leaves the waiting slot alone
OnCloseKeepsSlot(c) ==
    /\ socketEvents[c] # <<>>
    /\ Head(socketEvents[c]) = "close"
    /\ socketEvents' = [socketEvents EXCEPT ![c] = Tail(@)]
    /\ outbox' = Notified(c)
    /\ clients' = Deleted(c)
    /\ UNCHANGED <<arrivals, transport, now, calls, mgrVars, localVars, client, readyState,
                   peerId, emits, drops, waitingClient>>

OnClose(c) ==
    /\ socketEvents[c] # <<>>
    /\ Head(socketEvents[c]) = "close"
    /\ socketEvents' = [socketEvents EXCEPT ![c] = Tail(@)]
    /\ waitingClient' = IF waitingClient = c THEN None ELSE waitingClient
    /\ outbox' = Notified(c)
    /\ clients' = Deleted(c)
    /\ UNCHANGED <<arrivals, transport, now, calls, mgrVars, localVars, client, readyState,
                   peerId, emits, drops>>

----------------------------------------------------------------------------
(* WebSocketNetworkManager.js: the client of the relay server *)

ClientMessage(type, data) == [type |-> type, data |-> data]

\* the payloads gameConnection hands to emit(event, payload), by their type
SignalData == {"offer", "ice-candidate"}

\* sendToServer: if (this.ws && this.ws.readyState === WebSocket.OPEN) this.ws.send(...)
SendToServer(c, message) ==
    /\ readyState[c] = "OPEN"
    /\ HandleMessage(c, message)

\* findMatch(): sendToServer({ type: 'find-match' })
WsFindMatch(c) ==
    /\ transport = "websocket"
    /\ calls < MaxFinds
    /\ calls' = calls + 1
    /\ arrivals' = Append(arrivals, c)
    /\ SendToServer(c, ClientMessage("find-match", None))
    /\ UNCHANGED <<transport, now, mgrVars, localVars, clients, readyState,
                   socketEvents, peerId, emits, drops>>

\* emit(event, payload) -> emitSignalingMessage -> sendToServer({ type: 'signal', data }),
\* of at most max in a run
WsEmitOf(c, data, max) ==
    /\ transport = "websocket"
    /\ emits < max
    /\ emits' = emits + 1
    /\ SendToServer(c, ClientMessage("signal", data))
    /\ UNCHANGED <<arrivals, transport, now, calls, mgrVars, localVars, clients, readyState,
                   socketEvents, peerId, drops>>

WsEmit(c, data) ==
    /\ transport = "websocket"
    /\ emits < MaxEmits
    /\ emits' = emits + 1
    /\ SendToServer(c, ClientMessage("signal", data))
    /\ UNCHANGED <<arrivals, transport, now, calls, mgrVars, localVars, clients, readyState,
                   socketEvents, peerId, drops>>

\* handleMatchFound(message)
HandleMatchFound(c, message) ==
    /\ role' = [role EXCEPT ![c] = message.role]
    /\ opponentId' = [opponentId EXCEPT ![c] = message.opponentId]
    /\ isInitiator' = [isInitiator EXCEPT ![c] = message.isInitiator]
    /\ matchmakingComplete' = [matchmakingComplete EXCEPT ![c] = TRUE]
    /\ emitted' = [emitted EXCEPT ![c] =
          Append(@, MatchFoundEvent(message.role, message.opponentId, message.isInitiator))]
    /\ ConnectToGame(c, message.opponentId)

\* ws.onmessage -> handleServerMessage(message)
WsOnMessage(c) ==
    /\ readyState[c] = "OPEN"
    /\ outbox[c] # <<>>
    /\ outbox' = [outbox EXCEPT ![c] = Tail(@)]
    /\ LET message == Head(outbox[c])
       IN  CASE message.type = "client-id" ->
                    /\ peerId' = [peerId EXCEPT ![c] = message.from]
                    /\ UNCHANGED mgrVars
             [] message.type = "match-found" ->
                    /\ HandleMatchFound(c, message)
                    /\ UNCHANGED <<isSignalingConnected, peerId>>
             [] OTHER -> UNCHANGED <<mgrVars, peerId>>
    /\ UNCHANGED <<arrivals, transport, now, calls, localVars, serverVars, readyState,
                   socketEvents, emits, drops>>

\* the socket goes down: ws.onclose / ws.onerror on the client, and on the
\* server 'close' alone or 'error' followed by 'close'
SocketEvents == {<<"close">>, <<"error", "close">>}

SocketDrop(c) ==
    /\ transport = "websocket"
    /\ readyState[c] = "OPEN"
    /\ drops < MaxDrops
    /\ drops' = drops + 1
    /\ readyState' = [readyState EXCEPT ![c] = "CLOSED"]
    /\ \E events \in SocketEvents : socketEvents' = [socketEvents EXCEPT ![c] = events]
    /\ isSignalingConnected' = [isSignalingConnected EXCEPT ![c] = FALSE]
    /\ outbox' = [outbox EXCEPT ![c] = <<>>]
    /\ UNCHANGED <<arrivals, transport, now, calls, role, opponentId, isInitiator,
                   matchmakingComplete, gameConnection, emitted, localVars, serverVars,
                   peerId, emits>>

\* disconnect(): ws.close(), gameConnection.close(), reset the match
WsDisconnect(c) ==
    /\ transport = "websocket"
    /\ readyState[c] = "OPEN"
    /\ drops < MaxDrops
    /\ drops' = drops + 1
    /\ readyState' = [readyState EXCEPT ![c] = "CLOSED"]
    /\ socketEvents' = [socketEvents EXCEPT ![c] = <<"close">>]
    /\ isSignalingConnected' = [isSignalingConnected EXCEPT ![c] = FALSE]
    /\ gameConnection' = [gameConnection EXCEPT ![c] = Closed(@)]
    /\ matchmakingComplete' = [matchmakingComplete EXCEPT ![c] = FALSE]
    /\ opponentId' = [opponentId EXCEPT ![c] = None]
    /\ outbox' = [outbox EXCEPT ![c] = <<>>]
    /\ UNCHANGED <<arrivals, transport, now, calls, role, isInitiator, emitted, localVars,
                   serverVars, peerId, emits>>

----------------------------------------------------------------------------
(* LocalGameConnection.js: the negotiation session.                        *)
(* An async handler runs up to its next await in one step.  The operations *)
(* of one RTCPeerConnection settle in the order they were invoked, so the  *)
(* suspended handlers of a session form a queue: tasks[p].  An operation   *)
(* either succeeds or fails; the operations of a closed connection reject  *)
(* or never settle, which both leave the session as it is.                 *)

Labels == {"game_reliable", "game_unreliable"}

\* the payloads the game hands to send(data, reliable)
Payloads == {"move"}

NoChannels == [game_reliable |-> "null", game_unreliable |-> "null"]

\* createDataChannel("game_reliable", {ordered: true}),
\* createDataChannel("game_unreliable", {ordered: false, maxRetransmits: 0})
ChannelOptions ==
    [game_reliable |-> [ordered |-> TRUE],
     game_unreliable |-> [ordered |-> FALSE, maxRetransmits |-> 0]]

Task(handler, awaits) == [handler |-> handler, awaits |-> awaits]

\* one more call or event of this kind, of at most max in a run
Spend(kind, max) == budget[kind] < max /\ budget' = [budget EXCEPT ![kind] = @ + 1]

\* this.eventEmitter.emit(event, ...)
LifecycleEvent(name, data, channel) == [name |-> name, data |-> data, channel |-> channel]

EventEmitted(p, event) == lifecycle' = [lifecycle EXCEPT ![p] = Append(@, event)]

\* either side creates the channels and starts the offer
InitializeAsInitiator(p, initiator) ==
    /\ peerConnection[p] = "null"
    /\ connInitiator' = [connInitiator EXCEPT ![p] = initiator]
    /\ pendingRemoteCandidates' = [pendingRemoteCandidates EXCEPT ![p] = <<>>]
    /\ peerConnection' = [peerConnection EXCEPT ![p] = "open"]
    /\ connectionState' = [connectionState EXCEPT ![p] = "new"]
    /\ dataChannels' = [dataChannels EXCEPT ![p] =
           [game_reliable |-> "connecting", game_unreliable |-> "connecting"]]
    /\ tasks' = [tasks EXCEPT ![p] = Append(@, Task("createAndSendOffer", "createOffer"))]
    /\ UNCHANGED <<remoteDescription, localDescription, applied, queued, isConnected,
                   written, returned, lifecycle, signals, raised>>

\* initialize(config) -> createPeerConnection(rtcConfig); the initiator
\* creates both channels and starts createAndSendOffer
Initialize(p, initiator) ==
    /\ peerConnection[p] = "null"
    /\ connInitiator' = [connInitiator EXCEPT ![p] = initiator]
    /\ pendingRemoteCandidates' = [pendingRemoteCandidates EXCEPT ![p] = <<>>]
    /\ peerConnection' = [peerConnection EXCEPT ![p] = "open"]
    /\ connectionState' = [connectionState EXCEPT ![p] = "new"]
    /\ IF initiator
       THEN /\ dataChannels' = [dataChannels EXCEPT ![p] =
                   [game_reliable |-> "connecting", game_unreliable |-> "connecting"]]
            /\ tasks' = [tasks EXCEPT ![p] =
                   Append(@, Task("createAndSendOffer", "createOffer"))]
       ELSE UNCHANGED <<dataChannels, tasks>>
    /\ UNCHANGED <<remoteDescription, localDescription, applied, queued, isConnected,
                   written, returned, lifecycle, signals, raised>>

\* what a handler does when the operation it awaits has settled: the
\* descriptions it leaves, the message it hands to socket.emit, whether it
\* goes on to flushPendingRemoteCandidates, the operation it awaits next,
\* and whether an exception leaves the handler
Outcome(remote, local, signal, flush, awaits, raises) ==
    [remote |-> remote, local |-> local, signal |-> signal, flush |-> flush,
     awaits |-> awaits, raises |-> raises]

Continue(remote, local, signal, flush, awaits) ==
    Outcome(remote, local, signal, flush, awaits, FALSE)

\* the rejection is not caught
Uncaught(p) ==
    Outcome(remoteDescription[p], localDescription[p], <<>>, FALSE, "done", TRUE)

\* the catch block of the handler: logs, and the handler ends
Caught(p) ==
    Outcome(remoteDescription[p], localDescription[p], <<>>, FALSE, "done", FALSE)

\* the answer is handed to socket.emit once created, before it is set
AfterAnswersEarly(p, task, ok) ==
    LET remote == remoteDescription[p]
        local == localDescription[p]
    IN  CASE task.awaits = "addIceCandidate" ->
                Continue(remote, local, <<>>, TRUE, "done")
          [] ~ok -> Caught(p)
          [] task.handler = "createAndSendOffer" /\ task.awaits = "createOffer" ->
                Continue(remote, local, <<>>, FALSE, "setLocalDescription")
          [] task.handler = "createAndSendOffer" /\ task.awaits = "setLocalDescription" ->
                Continue(remote, "offer", <<"offer">>, FALSE, "done")
          [] task.handler = "handleOffer" /\ task.awaits = "setRemoteDescription" ->
                Continue("offer", local, <<>>, FALSE, "createAnswer")
          [] task.handler = "handleOffer" /\ task.awaits = "createAnswer" ->
                Continue(remote, local, <<"answer">>, FALSE, "setLocalDescription")
          [] task.handler = "handleOffer" /\ task.awaits = "setLocalDescription" ->
                Continue(remote, "answer", <<>>, TRUE, "done")
          [] task.handler = "handleAnswer" /\ task.awaits = "setRemoteDescription" ->
                Continue("answer", local, <<>>, TRUE, "done")

After(p, task, ok) ==
    LET remote == remoteDescription[p]
        local == localDescription[p]
    IN  CASE task.awaits = "addIceCandidate" ->
                \* flushPendingRemoteCandidates: a failed candidate is logged, the loop goes on
                Continue(remote, local, <<>>, TRUE, "done")
          [] ~ok -> Caught(p)
          [] task.handler = "createAndSendOffer" /\ task.awaits = "createOffer" ->
                Continue(remote, local, <<>>, FALSE, "setLocalDescription")
          [] task.handler = "createAndSendOffer" /\ task.awaits = "setLocalDescription" ->
                Continue(remote, "offer", <<"offer">>, FALSE, "done")
          [] task.handler = "handleOffer" /\ task.awaits = "setRemoteDescription" ->
                Continue("offer", local, <<>>, FALSE, "createAnswer")
          [] task.handler = "handleOffer" /\ task.awaits = "createAnswer" ->
                Continue(remote, local, <<>>, FALSE, "setLocalDescription")
          [] task.handler = "handleOffer" /\ task.awaits = "setLocalDescription" ->
                Continue(remote, "answer", <<"answer">>, TRUE, "done")
          [] task.handler = "handleAnswer" /\ task.awaits = "setRemoteDescription" ->
                Continue("answer", local, <<>>, TRUE, "done")

\* the operation the oldest suspended handler awaits settles, and the
\* handler runs up to its next await
Resume(p, ok) ==
    /\ peerConnection[p] = "open"
    /\ tasks[p] # <<>>
    /\ LET task == Head(tasks[p])
           rest == Tail(tasks[p])
           next == After(p, task, ok)
           shifts == next.flush /\ pendingRemoteCandidates[p] # <<>>
       IN  /\ remoteDescription' = [remoteDescription EXCEPT ![p] = next.remote]
           /\ localDescription' = [localDescription EXCEPT ![p] = next.local]
           /\ signals' = [signals EXCEPT ![p] = @ \o next.signal]
           /\ raised' = (raised \/ next.raises)
           /\ pendingRemoteCandidates' = [pendingRemoteCandidates EXCEPT ![p] =
                  IF shifts THEN Tail(@) ELSE @]
           /\ applied' = [applied EXCEPT ![p] =
                  IF shifts THEN Append(@, Head(pendingRemoteCandidates[p])) ELSE @]
           /\ tasks' = [tasks EXCEPT ![p] =
                  IF shifts THEN Append(rest, Task(task.handler, "addIceCandidate"))
                  ELSE IF next.awaits = "done" THEN rest
                  ELSE Append(rest, Task(task.handler, next.awaits))]
    /\ UNCHANGED <<peerConnection, connectionState, queued, channelVars, connInitiator,
                   lifecycle>>

\* handleOffer(data) and handleAnswer(data): without a connection, or on a
\* closed one, the handler ends in its guard or in its catch block
HandleDescription(p, handler) ==
    /\ tasks' = [tasks EXCEPT ![p] =
          IF peerConnection[p] = "open"
          THEN Append(@, Task(handler, "setRemoteDescription"))
          ELSE @]
    /\ UNCHANGED <<peerVars, channelVars, queueVars, connInitiator, lifecycle, signals,
                   raised>>

HandleOffer(p) == HandleDescription(p, "handleOffer")

HandleAnswer(p) == HandleDescription(p, "handleAnswer")

\* every candidate is buffered
BuffersAlways(p) == TRUE

\* if (!this.peerConnection.remoteDescription || !this.peerConnection.remoteDescription.type)
Buffers(p) == remoteDescription[p] = "null"

\* the newest candidate is put at the head of the queue
HandleCandidateNewestFirst(p, candidate) ==
    /\ IF peerConnection[p] # "open"
       THEN UNCHANGED <<pendingRemoteCandidates, queued, applied>>
       ELSE IF Buffers(p)
       THEN /\ pendingRemoteCandidates' =
                  [pendingRemoteCandidates EXCEPT ![p] = <<candidate>> \o @]
            /\ queued' = [queued EXCEPT ![p] = Append(@, candidate)]
            /\ UNCHANGED applied
       ELSE /\ applied' = [applied EXCEPT ![p] = Append(@, candidate)]
            /\ UNCHANGED <<pendingRemoteCandidates, queued>>
    /\ UNCHANGED <<peerConnection, connectionState, remoteDescription, localDescription,
                   channelVars, connInitiator, lifecycle, signals, tasks, raised>>

\* handleCandidate(data)
HandleCandidate(p, candidate) ==
    /\ IF peerConnection[p] # "open"
       THEN UNCHANGED <<pendingRemoteCandidates, queued, applied>>
       ELSE IF Buffers(p)
       THEN /\ pendingRemoteCandidates' =
                  [pendingRemoteCandidates EXCEPT ![p] = Append(@, candidate)]
            /\ queued' = [queued EXCEPT ![p] = Append(@, candidate)]
            /\ UNCHANGED applied
       ELSE /\ applied' = [applied EXCEPT ![p] = Append(@, candidate)]
            /\ UNCHANGED <<pendingRemoteCandidates, queued>>
    /\ UNCHANGED <<peerConnection, connectionState, remoteDescription, localDescription,
                   channelVars, connInitiator, lifecycle, signals, tasks, raised>>

\* const channel = reliable ? this.dataChannels.reliable : this.dataChannels.unreliable
Selected(reliable) == IF reliable THEN "game_reliable" ELSE "game_unreliable"

\* the reliable channel decides, whichever channel is selected
SendableIfReliableOpen(p, reliable) == dataChannels[p].game_reliable = "open"

\* if (channel && channel.readyState === 'open')
Sendable(p, reliable) == dataChannels[p][Selected(reliable)] = "open"

\* send(data, reliable)
Send(p, data, reliable) ==
    /\ IF Sendable(p, reliable)
       THEN /\ written' = [written EXCEPT ![p] =
                  Append(@, [channel |-> Selected(reliable), data |-> data])]
            /\ returned' = [returned EXCEPT ![p] = "true"]
       ELSE /\ returned' = [returned EXCEPT ![p] = "false"]
            /\ UNCHANGED written
    /\ UNCHANGED <<peerVars, dataChannels, isConnected, queueVars, connInitiator,
                   lifecycle, signals, tasks, raised>>

\* channel.close() / peerConnection.close() of a handle
ClosedHandle(state) == IF state = "null" THEN "null" ELSE "closed"

\* every close() reports the loss of the connection
CloseAnnounced(p) ==
    /\ dataChannels' = [dataChannels EXCEPT ![p] =
          [label \in Labels |-> ClosedHandle(@[label])]]
    /\ peerConnection' = [peerConnection EXCEPT ![p] = ClosedHandle(@)]
    /\ connectionState' = [connectionState EXCEPT ![p] =
          IF peerConnection[p] = "null" THEN @ ELSE "closed"]
    /\ isConnected' = [isConnected EXCEPT ![p] = FALSE]
    /\ tasks' = [tasks EXCEPT ![p] = <<>>]
    /\ EventEmitted(p, LifecycleEvent("game_connection_lost", None, None))
    /\ UNCHANGED <<remoteDescription, localDescription, applied, written, returned,
                   queueVars, connInitiator, signals, raised>>

\* close()
Close(p) ==
    /\ dataChannels' = [dataChannels EXCEPT ![p] =
          [label \in Labels |-> ClosedHandle(@[label])]]
    /\ peerConnection' = [peerConnection EXCEPT ![p] = ClosedHandle(@)]
    /\ connectionState' = [connectionState EXCEPT ![p] =
          IF peerConnection[p] = "null" THEN @ ELSE "closed"]
    /\ isConnected' = [isConnected EXCEPT ![p] = FALSE]
    /\ tasks' = [tasks EXCEPT ![p] = <<>>]
    /\ UNCHANGED <<remoteDescription, localDescription, applied, written, returned,
                   queueVars, connInitiator, lifecycle, signals, raised>>

\* the states a live connection reports through onconnectionstatechange
Reported == {"connecting", "connected", "disconnected", "failed"}

\* peerConnection.onconnectionstatechange
OnConnectionStateChange(p, state) ==
    /\ peerConnection[p] = "open"
    /\ state # connectionState[p]
    /\ connectionState' = [connectionState EXCEPT ![p] = state]
    /\ CASE state = "connected" ->
                /\ isConnected' = [isConnected EXCEPT ![p] = TRUE]
                /\ EventEmitted(p, LifecycleEvent("game_connection_established", None, None))
         [] state \in {"disconnected", "failed"} ->
                /\ isConnected' = [isConnected EXCEPT ![p] = FALSE]
                /\ EventEmitted(p, LifecycleEvent("game_connection_lost", None, None))
         [] OTHER -> UNCHANGED <<isConnected, lifecycle>>
    /\ UNCHANGED <<peerConnection, remoteDescription, localDescription, applied,
                   dataChannels, written, returned, queueVars, connInitiator, signals,
                   tasks, raised>>

\* peerConnection.ondatachannel (non-initiator only): take the handle
OnDataChannel(p, label) ==
    /\ peerConnection[p] = "open"
    /\ ~connInitiator[p]
    /\ dataChannels[p][label] = "null"
    /\ dataChannels' = [dataChannels EXCEPT ![p][label] = "connecting"]
    /\ UNCHANGED <<peerVars, isConnected, written, returned, queueVars, connInitiator,
                   lifecycle, signals, tasks, raised>>

\* either channel reports game_datachannel_open
OnOpenAnyLabel(p, label) ==
    /\ peerConnection[p] = "open"
    /\ dataChannels[p][label] = "connecting"
    /\ dataChannels' = [dataChannels EXCEPT ![p][label] = "open"]
    /\ isConnected' = [isConnected EXCEPT ![p] = TRUE]
    /\ EventEmitted(p, LifecycleEvent("game_datachannel_open", None, None))
    /\ UNCHANGED <<peerVars, written, returned, queueVars, connInitiator, signals,
                   tasks, raised>>

\* channel.onopen
OnOpen(p, label) ==
    /\ peerConnection[p] = "open"
    /\ dataChannels[p][label] = "connecting"
    /\ dataChannels' = [dataChannels EXCEPT ![p][label] = "open"]
    /\ IF label = "game_reliable"
       THEN /\ isConnected' = [isConnected EXCEPT ![p] = TRUE]
            /\ EventEmitted(p, LifecycleEvent("game_datachannel_open", None, None))
       ELSE UNCHANGED <<isConnected, lifecycle>>
    /\ UNCHANGED <<peerVars, written, returned, queueVars, connInitiator, signals,
                   tasks, raised>>

\* channel.onmessage
OnChannelMessage(p, label, data) ==
    /\ dataChannels[p][label] = "open"
    /\ EventEmitted(p, LifecycleEvent("game_data_received", data, label))
    /\ UNCHANGED <<peerVars, channelVars, queueVars, connInitiator, signals, tasks,
                   raised>>

\* channel.onclose, the other side or the transport having closed the channel
OnChannelClose(p, label) ==
    /\ dataChannels[p][label] \in {"connecting", "open"}
    /\ dataChannels' = [dataChannels EXCEPT ![p][label] = "closed"]
    /\ isConnected' = [isConnected EXCEPT ![p] =
          IF label = "game_reliable" THEN FALSE ELSE @]
    /\ UNCHANGED <<peerVars, written, returned, queueVars, connInitiator, lifecycle,
                   signals, tasks, raised>>

\* peerConnection.onicecandidate with a candidate: socket.emit('ice-candidate', ...)
OnIceCandidate(p) ==
    /\ peerConnection[p] = "open"
    /\ localDescription[p] # "null"
    /\ signals' = [signals EXCEPT ![p] = Append(@, "ice-candidate")]
    /\ UNCHANGED <<peerVars, channelVars, queueVars, connInitiator, lifecycle, tasks,
                   raised>>

----------------------------------------------------------------------------
(* WebSocketNetworkManager.js and its session: the negotiation of a pair   *)
(* through the relay.  connectToGame() is suspended at the dynamic import  *)
(* of initializeGameConnection, at handleOffer and at each handleCandidate *)
(* of its loop; connecting[c] holds where.  What follows an await that a   *)
(* resolved promise ends runs before any other event of the same manager.  *)

Players == {"p1", "p2"}

Position(at, next) == [at |-> at, next |-> next]

Goes(c, at, next) == connecting' = [connecting EXCEPT ![c] = Position(at, next)]

SessionIdle ==
    UNCHANGED <<peerVars, channelVars, queueVars, connInitiator, lifecycle, signals,
                tasks, raised>>

\* what no step of a negotiation changes
Untouched ==
    UNCHANGED <<transport, now, calls, localVars, clients, readyState, socketEvents,
                arrivals, emits, drops, budget, poolVars, handed>>

ServerIdle == UNCHANGED <<client, waitingClient, outbox>>

FieldsIdle ==
    UNCHANGED <<role, opponentId, isInitiator, isSignalingConnected,
                matchmakingComplete, emitted>>

\* a handleOffer call of c has not ended
Handling(c, handler) == \E i \in DOMAIN tasks[c] : tasks[c][i].handler = handler

\* connectToGame of c goes on before c handles anything else
Busy(c) ==
    \/ connecting[c].at = "initialized"
    \/ connecting[c].at = "handleOffer" /\ ~Handling(c, "handleOffer")

\* socket.emit(event, payload) -> emit -> emitSignalingMessage -> sendToServer:
\* what the session emitted in this step goes to the server, which handles it
RelaysEmitted(c) ==
    IF Len(signals'[c]) > Len(signals[c]) /\ readyState[c] = "OPEN"
    THEN HandleMessage(c, ClientMessage("signal", signals'[c][Len(signals'[c])]))
    ELSE ServerIdle

\* the offer is lost when no session exists yet
DropOffer(c) == UNCHANGED pendingOffer

\* this.pendingOffer = message.data
KeepOffer(c) == pendingOffer' = [pendingOffer EXCEPT ![c] = "offer"]

\* a candidate is named after the connection that gathered it
\* handleSignalingMessage(message)
HandleSignalingMessage(c, message) ==
    CASE message.data = "offer" ->
            IF gameConnection[c] # "null"
            THEN HandleOffer(c) /\ UNCHANGED <<pendingOffer, pendingCandidates>>
            ELSE KeepOffer(c) /\ SessionIdle /\ UNCHANGED pendingCandidates
      [] message.data = "answer" ->
            /\ IF gameConnection[c] # "null" THEN HandleAnswer(c) ELSE SessionIdle
            /\ UNCHANGED <<pendingOffer, pendingCandidates>>
      [] message.data = "ice-candidate" ->
            IF gameConnection[c] # "null"
            THEN HandleCandidate(c, message.from)
                 /\ UNCHANGED <<pendingOffer, pendingCandidates>>
            ELSE /\ pendingCandidates' = [pendingCandidates EXCEPT ![c] =
                                             Append(@, message.from)]
                 /\ SessionIdle
                 /\ UNCHANGED pendingOffer
      [] OTHER -> SessionIdle /\ UNCHANGED <<pendingOffer, pendingCandidates>>

\* connectToGame() without its guards
ConnectToGameStartsUnguarded(c, opp) ==
    /\ IF gameConnection[c] # "null" THEN Close(c) ELSE SessionIdle
    /\ gameConnection' = [gameConnection EXCEPT ![c] = "null"]
    /\ Goes(c, "import", 1)

\* connectToGame() up to the import of initializeGameConnection
ConnectToGameStarts(c, opp) ==
    IF opp = None \/ (gameConnection[c] # "null" /\ isConnected[c])
    THEN SessionIdle /\ UNCHANGED <<gameConnection, connecting>>
    ELSE /\ IF gameConnection[c] # "null" THEN Close(c) ELSE SessionIdle
         /\ gameConnection' = [gameConnection EXCEPT ![c] = "null"]
         /\ Goes(c, "import", 1)

\* handleMatchFound(message), with connectToGame() suspended at its import
OnMatchFound(c, message) ==
    /\ role' = [role EXCEPT ![c] = message.role]
    /\ opponentId' = [opponentId EXCEPT ![c] = message.opponentId]
    /\ isInitiator' = [isInitiator EXCEPT ![c] = message.isInitiator]
    /\ matchmakingComplete' = [matchmakingComplete EXCEPT ![c] = TRUE]
    /\ emitted' = [emitted EXCEPT ![c] =
          Append(@, MatchFoundEvent(message.role, message.opponentId, message.isInitiator))]
    /\ ConnectToGameStarts(c, message.opponentId)

\* ws.onmessage -> handleServerMessage(message)
OnServerMessage(c) ==
    /\ readyState[c] = "OPEN"
    /\ outbox[c] # <<>>
    /\ ~Busy(c)
    /\ outbox' = [outbox EXCEPT ![c] = Tail(@)]
    /\ LET message == Head(outbox[c])
       IN  CASE message.type = "client-id" ->
                    /\ peerId' = [peerId EXCEPT ![c] = message.from]
                    /\ SessionIdle
                    /\ UNCHANGED <<mgrVars, connectVars>>
             [] message.type = "match-found" ->
                    /\ OnMatchFound(c, message)
                    /\ UNCHANGED <<isSignalingConnected, peerId, pendingOffer,
                                   pendingCandidates>>
             [] message.type = "signal" ->
                    /\ HandleSignalingMessage(c, message)
                    /\ UNCHANGED <<mgrVars, peerId, connecting>>
             [] OTHER -> SessionIdle /\ UNCHANGED <<mgrVars, peerId, connectVars>>
    /\ UNCHANGED <<client, waitingClient>>
    /\ Untouched

\* initializeGameConnection() after the import: the manager's first session
\* is created and initialized
Imported(c) ==
    /\ connecting[c].at = "import"
    /\ gameConnection' = [gameConnection EXCEPT ![c] = "open"]
    /\ Initialize(c, isInitiator[c])
    /\ Goes(c, "initialized", 1)
    /\ FieldsIdle /\ ServerIdle /\ Untouched
    /\ UNCHANGED <<peerId, pendingOffer, pendingCandidates>>

\* initializeGameConnection() after the import, the manager having closed
\* the session it had: new LocalGameConnection(this, this.scene.events) and
\* its initialize(config)
Reimported(c) ==
    /\ connecting[c].at = "import"
    /\ peerConnection[c] = "closed"
    /\ gameConnection' = [gameConnection EXCEPT ![c] = "open"]
    /\ connInitiator' = [connInitiator EXCEPT ![c] = isInitiator[c]]
    /\ peerConnection' = [peerConnection EXCEPT ![c] = "open"]
    /\ connectionState' = [connectionState EXCEPT ![c] = "new"]
    /\ remoteDescription' = [remoteDescription EXCEPT ![c] = "null"]
    /\ localDescription' = [localDescription EXCEPT ![c] = "null"]
    /\ applied' = [applied EXCEPT ![c] = <<>>]
    /\ pendingRemoteCandidates' = [pendingRemoteCandidates EXCEPT ![c] = <<>>]
    /\ queued' = [queued EXCEPT ![c] = <<>>]
    /\ dataChannels' = [dataChannels EXCEPT ![c] =
          IF isInitiator[c]
          THEN [game_reliable |-> "connecting", game_unreliable |-> "connecting"]
          ELSE NoChannels]
    /\ isConnected' = [isConnected EXCEPT ![c] = FALSE]
    /\ written' = [written EXCEPT ![c] = <<>>]
    /\ tasks' = [tasks EXCEPT ![c] =
          IF isInitiator[c] THEN <<Task("createAndSendOffer", "createOffer")>> ELSE <<>>]
    /\ Goes(c, "initialized", 1)
    /\ UNCHANGED <<returned, lifecycle, signals, raised>>
    /\ FieldsIdle /\ ServerIdle /\ Untouched
    /\ UNCHANGED <<peerId, pendingOffer, pendingCandidates>>

\* the loop ends after the first buffered candidate
BufferedCandidatesFirstOnly(c, next) ==
    IF next <= Len(pendingCandidates[c]) /\ next = 1
    THEN /\ HandleCandidate(c, pendingCandidates[c][next])
         /\ Goes(c, "candidates", next + 1)
         /\ UNCHANGED pendingCandidates
    ELSE /\ SessionIdle
         /\ Goes(c, "idle", 1)
         /\ pendingCandidates' = [pendingCandidates EXCEPT ![c] = <<>>]

\* for (const candidateData of this.pendingCandidates)
\*     await this.gameConnection.handleCandidate(candidateData);
\* this.pendingCandidates = [];
BufferedCandidates(c, next) ==
    IF next <= Len(pendingCandidates[c])
    THEN /\ HandleCandidate(c, pendingCandidates[c][next])
         /\ Goes(c, "candidates", next + 1)
         /\ UNCHANGED pendingCandidates
    ELSE /\ SessionIdle
         /\ Goes(c, "idle", 1)
         /\ pendingCandidates' = [pendingCandidates EXCEPT ![c] = <<>>]

\* connectToGame() from the end of initializeGameConnection on
ConnectToGameContinues(c) ==
    /\ CASE connecting[c].at = "initialized" ->
                IF pendingOffer[c] # "null" /\ ~isInitiator[c]
                THEN /\ HandleOffer(c)
                     /\ Goes(c, "handleOffer", 1)
                     /\ UNCHANGED <<pendingOffer, pendingCandidates>>
                ELSE BufferedCandidates(c, 1) /\ UNCHANGED pendingOffer
         [] connecting[c].at = "handleOffer" /\ ~Handling(c, "handleOffer") ->
                /\ pendingOffer' = [pendingOffer EXCEPT ![c] = "null"]
                /\ BufferedCandidates(c, 1)
         [] connecting[c].at = "candidates" ->
                BufferedCandidates(c, connecting[c].next) /\ UNCHANGED pendingOffer
         [] OTHER -> FALSE
    /\ FieldsIdle /\ ServerIdle /\ Untouched
    /\ UNCHANGED <<gameConnection, peerId>>

\* an operation of c's peer connection succeeds
Succeeds(c) ==
    /\ ~Busy(c)
    /\ Resume(c, TRUE)
    /\ RelaysEmitted(c)
    /\ Untouched
    /\ UNCHANGED <<mgrVars, peerId, connectVars>>

Gathered(c) == Len(SelectSeq(signals[c], LAMBDA s : s = "ice-candidate"))

\* c's peer connection gathers a candidate
Gathers(c) ==
    /\ ~Busy(c)
    /\ Gathered(c) < MaxIce
    /\ OnIceCandidate(c)
    /\ RelaysEmitted(c)
    /\ Untouched
    /\ UNCHANGED <<mgrVars, peerId, connectVars>>

\* c's peer connection holds both descriptions and the candidates of the
\* other side
Negotiated(c) ==
    /\ peerConnection[c] = "open"
    /\ localDescription[c] # "null"
    /\ remoteDescription[c] # "null"
    /\ Len(applied[c]) = MaxIce

\* the browsers connect two peer connections that have negotiated
Linked == \A c \in Players : Negotiated(c)

ManagersIdle ==
    /\ Untouched /\ ServerIdle
    /\ UNCHANGED <<mgrVars, peerId, connectVars>>

\* the transport of c reports 'connected'
Connects(c) ==
    /\ Linked /\ ~Busy(c)
    /\ OnConnectionStateChange(c, "connected")
    /\ ManagersIdle

\* a channel the initiator created reaches the responder
Announced(c, label) ==
    /\ Linked /\ ~Busy(c)
    /\ \E o \in Players : connInitiator[o] /\ dataChannels[o][label] # "null"
    /\ OnDataChannel(c, label)
    /\ ManagersIdle

\* a channel of c opens
Opens(c, label) ==
    /\ Linked /\ ~Busy(c)
    /\ OnOpen(c, label)
    /\ ManagersIdle

Ready(c) ==
    \E i \in DOMAIN lifecycle[c] : lifecycle[c][i].name = "game_datachannel_open"

\* the initiator calls send(payload, true), both sides having reported
\* game_datachannel_open
SendsMove(c) ==
    /\ connInitiator[c] /\ ~Busy(c)
    /\ \A o \in Players : Ready(o)
    /\ written[c] = <<>>
    /\ \E data \in Payloads : Send(c, data, TRUE)
    /\ ManagersIdle

Received(c) ==
    Len(SelectSeq(lifecycle[c], LAMBDA e : e.name = "game_data_received"))

\* what o wrote to a channel arrives at c, in the order written
Delivers(o, c) ==
    /\ o # c /\ ~Busy(c)
    /\ Received(c) < Len(written[o])
    /\ LET message == written[o][Received(c) + 1]
       IN  OnChannelMessage(c, message.channel, message.data)
    /\ ManagersIdle

----------------------------------------------------------------------------
(* connectToGame() and disconnect() of the WebSocket manager over whole    *)
(* sessions: any number of connectToGame() calls may be suspended at the   *)
(* import, and each creates a session when its import ends.               *)

InternalsIdle ==
    UNCHANGED <<peerVars, channelVars, queueVars, connInitiator, lifecycle, signals,
                tasks, raised, budget, connectVars, handed>>

\* this.gameConnection, when not null, is the newest session created
Newest(sessions) == sessions[Len(sessions)]

\* this.gameConnection.close()
CloseNewest(c) ==
    created' = [created EXCEPT ![c] =
        IF gameConnection[c] # "null" THEN [@ EXCEPT ![Len(@)] = "closed"] ELSE @]

\* connectToGame() up to the import: the guards, then initializeGameConnection
\* closes and forgets the session the manager has
ConnectToGameImports(c, opp) ==
    IF opp = None \/ (gameConnection[c] # "null" /\ Newest(created[c]) = "connected")
    THEN UNCHANGED <<gameConnection, poolVars>>
    ELSE /\ CloseNewest(c)
         /\ gameConnection' = [gameConnection EXCEPT ![c] = "null"]
         /\ importing' = [importing EXCEPT ![c] = @ + 1]

\* ws.onmessage -> handleServerMessage(message)
OnMessageOf(c) ==
    /\ readyState[c] = "OPEN"
    /\ outbox[c] # <<>>
    /\ outbox' = [outbox EXCEPT ![c] = Tail(@)]
    /\ LET message == Head(outbox[c])
       IN  CASE message.type = "client-id" ->
                    /\ peerId' = [peerId EXCEPT ![c] = message.from]
                    /\ UNCHANGED <<mgrVars, poolVars>>
             [] message.type = "match-found" ->
                    /\ role' = [role EXCEPT ![c] = message.role]
                    /\ opponentId' = [opponentId EXCEPT ![c] = message.opponentId]
                    /\ isInitiator' = [isInitiator EXCEPT ![c] = message.isInitiator]
                    /\ matchmakingComplete' = [matchmakingComplete EXCEPT ![c] = TRUE]
                    /\ emitted' = [emitted EXCEPT ![c] =
                          Append(@, MatchFoundEvent(message.role, message.opponentId,
                                                    message.isInitiator))]
                    /\ ConnectToGameImports(c, message.opponentId)
                    /\ UNCHANGED <<isSignalingConnected, peerId>>
             [] OTHER -> UNCHANGED <<mgrVars, peerId, poolVars>>
    /\ InternalsIdle
    /\ UNCHANGED <<arrivals, transport, now, calls, localVars, serverVars, readyState,
                   socketEvents, emits, drops>>

\* initializeGameConnection() after the import:
\* this.gameConnection = new LocalGameConnection(...); initialize(...)
InitializeGameConnection(c) ==
    /\ importing[c] > 0
    /\ importing' = [importing EXCEPT ![c] = @ - 1]
    /\ created' = [created EXCEPT ![c] = Append(@, "open")]
    /\ gameConnection' = [gameConnection EXCEPT ![c] = "open"]
    /\ InternalsIdle
    /\ UNCHANGED <<transport, now, calls, role, opponentId, isInitiator,
                   isSignalingConnected, matchmakingComplete, emitted, localVars,
                   relayVars>>

\* onconnectionstatechange 'connected' or the reliable channel's onopen, in
\* a session that is not closed: isConnected = true
SessionConnects(c) ==
    /\ \E i \in DOMAIN created[c] :
          /\ created[c][i] = "open"
          /\ created' = [created EXCEPT ![c][i] = "connected"]
    /\ InternalsIdle
    /\ UNCHANGED <<transport, now, calls, mgrVars, localVars, relayVars, importing>>

\* onconnectionstatechange 'disconnected' | 'failed' or the reliable
\* channel's onclose: isConnected = false
SessionDisconnects(c) ==
    /\ \E i \in DOMAIN created[c] :
          /\ created[c][i] = "connected"
          /\ created' = [created EXCEPT ![c][i] = "open"]
    /\ InternalsIdle
    /\ UNCHANGED <<transport, now, calls, mgrVars, localVars, relayVars, importing>>

\* disconnect(), with the session it closes
DisconnectsSession(c) ==
    /\ WsDisconnect(c)
    /\ CloseNewest(c)
    /\ InternalsIdle
    /\ UNCHANGED importing

----------------------------------------------------------------------------
(* LocalNetworkManager.js: the messages of the session over localStorage.  *)
(* emit(event, payload) writes them to the signaling key; the listener     *)
(* hands the ones that target the tab to handleSignalingMessage, which     *)
(* passes them to the session or, without a session, buffers them.         *)

Matchmaking == {"join-request", "join-accept"}

SessionSignals == {"offer", "answer", "ice-candidate"}

\* the next 'storage' event of p carries a message of one of these types
Queued(p, types) == storageEvents[p] # <<>> /\ Head(storageEvents[p]).type \in types

SessionQuiet ==
    UNCHANGED <<peerVars, channelVars, queueVars, connInitiator, lifecycle, signals,
                tasks, raised, budget, connecting, poolVars>>

\* emit(event, payload) -> emitSignalingMessage, called by the open session of p
Emit(p, type) ==
    /\ transport = "localStorage"
    /\ At(p, "idle")
    /\ gameConnection[p] = "open"
    /\ emits < MaxSessionSignals
    /\ emits' = emits + 1
    /\ EmitSignalingMessage(p, type, opponentId[p])
    /\ UNCHANGED <<transport, now, calls, mgrVars, peersData, frame, timerVars,
                   stampVars, serverVars, socketVars, arrivals, peerId, drops,
                   sessionVars>>

\* case 'offer' / 'answer' / 'ice-candidate' of handleSignalingMessage
OnSessionSignal(p) ==
    /\ At(p, "idle")
    /\ storageEvents[p] # <<>>
    /\ storageEvents' = [storageEvents EXCEPT ![p] = Tail(@)]
    /\ LET message == Head(storageEvents[p])
       IN  CASE gameConnection[p] # "null" /\ message.type \in SessionSignals ->
                    /\ handed' = [handed EXCEPT ![p] = Append(@, message.type)]
                    /\ UNCHANGED <<pendingOffer, pendingCandidates>>
             [] gameConnection[p] = "null" /\ message.type = "offer" ->
                    /\ pendingOffer' = [pendingOffer EXCEPT ![p] = "offer"]
                    /\ UNCHANGED <<handed, pendingCandidates>>
             [] gameConnection[p] = "null" /\ message.type = "ice-candidate" ->
                    /\ pendingCandidates' = [pendingCandidates EXCEPT ![p] =
                                                 Append(@, message.fromPeer)]
                    /\ UNCHANGED <<handed, pendingOffer>>
             [] OTHER -> UNCHANGED <<handed, pendingOffer, pendingCandidates>>
    /\ SessionQuiet
    /\ UNCHANGED <<transport, now, calls, mgrVars, peersData, frame, timerVars,
                   stampVars, relayVars>>

\* connectToGame() after initializeGameConnection: the buffered offer, when
\* the tab is not the initiator, and the buffered candidates go to the session
ProcessPending(p) ==
    /\ IF gameConnection'[p] = "open" /\ gameConnection[p] # "open"
       THEN LET offers == IF pendingOffer[p] # "null" /\ ~isInitiator[p]
                          THEN <<"offer">> ELSE <<>>
                candidates == [i \in DOMAIN pendingCandidates[p] |-> "ice-candidate"]
            IN  /\ handed' = [handed EXCEPT ![p] = @ \o offers \o candidates]
                /\ pendingOffer' = [pendingOffer EXCEPT ![p] =
                                        IF offers # <<>> THEN "null" ELSE @]
                /\ pendingCandidates' = [pendingCandidates EXCEPT ![p] = <<>>]
       ELSE UNCHANGED <<handed, pendingOffer, pendingCandidates>>
    /\ SessionQuiet
----------------------------------------------------------------------------
(* Specifications *)

vars == <<transport, now, calls, mgrVars, localVars, relayVars, sessionVars>>

InitFields ==
    /\ calls = 0
    /\ role = [p \in Participants |-> "null"]
    /\ opponentId = [p \in Participants |-> None]
    /\ isInitiator = [p \in Participants |-> FALSE]
    /\ isSignalingConnected = [p \in Participants |-> FALSE]
    /\ matchmakingComplete = [p \in Participants |-> FALSE]
    /\ gameConnection = [p \in Participants |-> "null"]
    /\ emitted = [p \in Participants |-> <<>>]

InitManagers == now = 0 /\ InitFields

InitStorage ==
    /\ peersData = [present |-> FALSE, peers |-> <<>>]
    /\ storageEvents = [p \in Tabs |-> <<>>]
    /\ frame = [p \in Tabs |-> Idle]
    /\ verifyTimers = [p \in Tabs |-> 0]
    /\ pollIntervals = [p \in Tabs |-> 0]
    /\ pollHandle = [p \in Tabs |-> FALSE]
    /\ lastStamp = -1
    /\ stampsDistinct = TRUE
    /\ left = [p \in Tabs |-> FALSE]

InitServer ==
    /\ clients = <<>>
    /\ client = [c \in Connections |-> NewClient]
    /\ waitingClient = None
    /\ readyState = [c \in Connections |-> "CONNECTING"]
    /\ socketEvents = [c \in Connections |-> <<>>]
    /\ outbox = [c \in Connections |-> <<>>]
    /\ peerId = [c \in Connections |-> None]
    /\ arrivals = <<>>
    /\ emits = 0
    /\ drops = 0

Kinds == {"candidates", "descriptions", "transitions", "channelEvents", "sends",
          "closes", "ice", "connects", "malformed", "garbled"}

InitSessions ==
    /\ peerConnection = [p \in Participants |-> "null"]
    /\ connectionState = [p \in Participants |-> "new"]
    /\ remoteDescription = [p \in Participants |-> "null"]
    /\ localDescription = [p \in Participants |-> "null"]
    /\ pendingRemoteCandidates = [p \in Participants |-> <<>>]
    /\ applied = [p \in Participants |-> <<>>]
    /\ queued = [p \in Participants |-> <<>>]
    /\ dataChannels = [p \in Participants |-> NoChannels]
    /\ isConnected = [p \in Participants |-> FALSE]
    /\ connInitiator = [p \in Participants |-> FALSE]
    /\ lifecycle = [p \in Participants |-> <<>>]
    /\ signals = [p \in Participants |-> <<>>]
    /\ tasks = [p \in Participants |-> <<>>]
    /\ written = [p \in Participants |-> <<>>]
    /\ returned = [p \in Participants |-> "none"]
    /\ raised = FALSE
    /\ budget = [kind \in Kinds |-> 0]
    /\ pendingOffer = [p \in Participants |-> "null"]
    /\ pendingCandidates = [p \in Participants |-> <<>>]
    /\ connecting = [p \in Participants |-> Position("idle", 1)]
    /\ importing = [p \in Participants |-> 0]
    /\ created = [p \in Participants |-> <<>>]
    /\ handed = [p \in Participants |-> <<>>]

InitObjects == InitManagers /\ InitStorage /\ InitServer /\ InitSessions

InitLocal == transport = "localStorage" /\ InitObjects

\* a storage access of a running handler
TabStep(p) ==
    \/ BecomeHostRead(p) \/ BecomeHostWrite(p)
    \/ JoinAsGuestRead(p) \/ JoinAsGuestWrite(p)
    \/ SwitchToGuestRead(p) \/ SwitchToGuestWrite(p)
    \/ PollRemoveWrite(p) \/ PollRegisterWrite(p)
    \/ AcceptWrite(p) \/ DisconnectWrite(p)

TabTimer(p) == VerifyHostStatus(p) \/ CheckHostStatus(p)

NextLocal ==
    \/ \E p \in Tabs : FindMatch(p) /\ UNCHANGED sessionVars
    \/ \E p \in Tabs : Disconnect(p) /\ UNCHANGED sessionVars
    \/ \E p \in Tabs : TabStep(p) /\ UNCHANGED sessionVars
    \/ \E p \in Tabs : TabTimer(p) /\ UNCHANGED sessionVars
    \/ \E p \in Tabs : OnStorage(p) /\ UNCHANGED sessionVars

SpecLocal == InitLocal /\ [][NextLocal]_vars

\* The tabs over a longer time: the clock starts one tick before the origin,
\* so that registrations as old as the liveness window are reached.
InitWindow ==
    /\ transport = "localStorage"
    /\ now = 0 - TickMs
    /\ InitFields /\ InitStorage /\ InitServer /\ InitSessions

SpecWindow == InitWindow /\ [][NextLocal]_vars

\* The tabs with the messages of their sessions: a session that is open
\* emits offers, answers and candidates through its manager.
NextBroadcast ==
    \/ \E p \in Tabs : FindMatch(p) /\ UNCHANGED sessionVars
    \/ \E p \in Tabs : Disconnect(p) /\ UNCHANGED sessionVars
    \/ \E p \in Tabs : TabStep(p) /\ ProcessPending(p)
    \/ \E p \in Tabs : TabTimer(p) /\ UNCHANGED sessionVars
    \/ \E p \in Tabs : Queued(p, Matchmaking) /\ OnStorage(p) /\ ProcessPending(p)
    \/ \E p \in Tabs : Queued(p, SessionSignals) /\ OnSessionSignal(p)
    \/ \E p \in Tabs, type \in SessionSignals : Emit(p, type)

SpecBroadcast == InitLocal /\ [][NextBroadcast]_vars

InitRelay == transport = "websocket" /\ InitObjects

\* a message of one of these types is waiting at c's open socket
Arrived(c, types) ==
    readyState[c] = "OPEN" /\ outbox[c] # <<>> /\ Head(outbox[c]).type \in types

Quiet(types) == \A c \in Connections : ~Arrived(c, types)

\* handlers that write nothing another handler or the server reads, so that
\* running them first loses no behaviour
Passive == {"client-id", "waiting", "signal", "peer-disconnected"}

ServerMessages == Passive \cup {"match-found"}

\* a 'match-found' is handled at any later moment
NextRelay ==
    \/ \E c \in Connections : Arrived(c, Passive) /\ WsOnMessage(c) /\ UNCHANGED sessionVars
    \/ \E c \in Connections :
          Quiet(Passive) /\ Arrived(c, {"match-found"}) /\ WsOnMessage(c) /\ UNCHANGED sessionVars
    \/ \E c \in Connections : Quiet(Passive) /\ OnConnection(c) /\ UNCHANGED sessionVars
    \/ \E c \in Connections : Quiet(Passive) /\ WsFindMatch(c) /\ UNCHANGED sessionVars
    \/ \E c \in Connections : Quiet(Passive) /\ WsDisconnect(c) /\ UNCHANGED sessionVars
    \/ \E c \in Connections : Quiet(Passive) /\ SocketDrop(c) /\ UNCHANGED sessionVars
    \/ \E c \in Connections : Quiet(Passive) /\ OnError(c) /\ UNCHANGED sessionVars
    \/ \E c \in Connections : Quiet(Passive) /\ OnClose(c) /\ UNCHANGED sessionVars
    \/ \E c \in Connections, data \in SignalData : Quiet(Passive) /\ WsEmit(c, data) /\ UNCHANGED sessionVars

SpecRelay == InitRelay /\ [][NextRelay]_vars

\* every message is handled before the next request: what the server does
\* does not depend on when its clients handle what it sent
NextServer ==
    \/ \E c \in Connections : Arrived(c, ServerMessages) /\ WsOnMessage(c) /\ UNCHANGED sessionVars
    \/ \E c \in Connections : Quiet(ServerMessages) /\ OnConnection(c) /\ UNCHANGED sessionVars
    \/ \E c \in Connections : Quiet(ServerMessages) /\ WsFindMatch(c) /\ UNCHANGED sessionVars
    \/ \E c \in Connections : Quiet(ServerMessages) /\ WsDisconnect(c) /\ UNCHANGED sessionVars
    \/ \E c \in Connections : Quiet(ServerMessages) /\ SocketDrop(c) /\ UNCHANGED sessionVars
    \/ \E c \in Connections : Quiet(ServerMessages) /\ OnError(c) /\ UNCHANGED sessionVars
    \/ \E c \in Connections : Quiet(ServerMessages) /\ OnClose(c) /\ UNCHANGED sessionVars
    \/ \E c \in Connections, data \in SignalData : Quiet(ServerMessages) /\ WsEmit(c, data) /\ UNCHANGED sessionVars

SpecServer == InitRelay /\ [][NextServer]_vars

\* One session, driven directly: its owner calls initialize, handleOffer,
\* handleAnswer, handleCandidate, send and close in any order, the browser
\* settles the session's operations with either outcome and raises its events.
InitSession == transport = "direct" /\ InitObjects

Owner == "p1"

MatchmakingIdle ==
    UNCHANGED <<transport, now, calls, mgrVars, localVars, relayVars, connectVars,
                poolVars, handed>>

CallInitialize ==
    \E initiator \in BOOLEAN :
        Initialize(Owner, initiator) /\ UNCHANGED budget /\ MatchmakingIdle

Settle == \E ok \in BOOLEAN : Resume(Owner, ok) /\ UNCHANGED budget /\ MatchmakingIdle

CallHandleOffer ==
    Spend("descriptions", MaxDescriptions) /\ HandleOffer(Owner) /\ MatchmakingIdle

CallHandleAnswer ==
    Spend("descriptions", MaxDescriptions) /\ HandleAnswer(Owner) /\ MatchmakingIdle

\* the candidates are numbered in the order they arrive
CallHandleCandidate ==
    /\ Spend("candidates", MaxCandidates)
    /\ HandleCandidate(Owner, budget.candidates + 1)
    /\ MatchmakingIdle

CallSend ==
    \E data \in Payloads, reliable \in BOOLEAN :
        Spend("sends", MaxSends) /\ Send(Owner, data, reliable) /\ MatchmakingIdle

CallClose == Spend("closes", MaxCloses) /\ Close(Owner) /\ MatchmakingIdle

StateChange ==
    \E state \in Reported :
        /\ Spend("transitions", MaxTransitions)
        /\ OnConnectionStateChange(Owner, state)
        /\ MatchmakingIdle

ChannelArrives ==
    \E label \in Labels :
        /\ Spend("channelEvents", MaxChannelEvents)
        /\ OnDataChannel(Owner, label)
        /\ MatchmakingIdle

ChannelOpens ==
    \E label \in Labels :
        Spend("channelEvents", MaxChannelEvents) /\ OnOpen(Owner, label) /\ MatchmakingIdle

ChannelCloses ==
    \E label \in Labels :
        /\ Spend("channelEvents", MaxChannelEvents)
        /\ OnChannelClose(Owner, label)
        /\ MatchmakingIdle

MessageArrives ==
    \E label \in Labels, data \in Payloads :
        /\ Spend("sends", MaxSends)
        /\ OnChannelMessage(Owner, label, data)
        /\ MatchmakingIdle

CandidateGathered == Spend("ice", MaxIce) /\ OnIceCandidate(Owner) /\ MatchmakingIdle

\* the exchange of descriptions and candidates
NextDescriptions ==
    \/ CallInitialize
    \/ Settle
    \/ CallHandleOffer
    \/ CallHandleAnswer
    \/ CallHandleCandidate
    \/ CallClose
    \/ CandidateGathered

SpecDescriptions == InitSession /\ [][NextDescriptions]_vars

\* one candidate arrives late, the reliable channel being open
LateCandidate ==
    /\ dataChannels[Owner].game_reliable = "open"
    /\ budget.candidates = 0
    /\ CallHandleCandidate

\* the transport and the channels of a session
NextChannels ==
    \/ CallInitialize
    \/ Settle
    \/ CallHandleAnswer
    \/ LateCandidate
    \/ CallSend
    \/ CallClose
    \/ StateChange
    \/ ChannelArrives
    \/ ChannelOpens
    \/ ChannelCloses
    \/ MessageArrives

SpecChannels == InitSession /\ [][NextChannels]_vars

\* the responder path: offers arrive at a session, its operations settle
\* with either outcome, and the channels of the other side arrive
NextResponder ==
    \/ CallInitialize
    \/ Settle
    \/ CallHandleOffer
    \/ CallHandleCandidate
    \/ ChannelArrives
    \/ CallClose

SpecResponder == InitSession /\ [][NextResponder]_vars

\* The relay with signals left unhandled at their receivers: every other
\* message is handled before the next request.
Relayed == {"signal"}

Handled == ServerMessages \ Relayed

NextSignals ==
    \/ \E c \in Connections : Arrived(c, ServerMessages) /\ WsOnMessage(c) /\ UNCHANGED sessionVars
    \/ \E c \in Connections : Quiet(Handled) /\ OnConnection(c) /\ UNCHANGED sessionVars
    \/ \E c \in Connections : Quiet(Handled) /\ WsFindMatch(c) /\ UNCHANGED sessionVars
    \/ \E c \in Connections :
          Quiet(Handled) /\ WsEmitOf(c, emits + 1, MaxSignals) /\ UNCHANGED sessionVars

SpecSignals == InitRelay /\ [][NextSignals]_vars

\* The managers of the relay with their sessions as wholes: a session is
\* created when the import of connectToGame() ends, its transport connects
\* at some later moment, and close() closes it.
NextSessions ==
    \/ \E c \in Connections : Arrived(c, ServerMessages) /\ OnMessageOf(c)
    \/ \E c \in Connections : Quiet(ServerMessages) /\ OnConnection(c) /\ UNCHANGED sessionVars
    \/ \E c \in Connections : Quiet(ServerMessages) /\ WsFindMatch(c) /\ UNCHANGED sessionVars
    \/ \E c \in Connections : Quiet(ServerMessages) /\ InitializeGameConnection(c)
    \/ \E c \in Connections : Quiet(ServerMessages) /\ SessionConnects(c)
    \/ \E c \in Connections : Quiet(ServerMessages) /\ SessionDisconnects(c)
    \/ \E c \in Connections : Quiet(ServerMessages) /\ DisconnectsSession(c)

SpecSessions == InitRelay /\ [][NextSessions]_vars

\* Two managers connect to the relay, each calls findMatch() once, and their
\* sessions negotiate through the relay.  Every operation of the peer
\* connections succeeds, nobody leaves, and every handler that can run does.
FindsOnce(c) ==
    /\ isSignalingConnected[c]
    /\ \A i \in DOMAIN arrivals : arrivals[i] # c
    /\ WsFindMatch(c)

NextNegotiation ==
    \/ \E c \in Players : OnConnection(c) /\ UNCHANGED sessionVars
    \/ \E c \in Players : FindsOnce(c) /\ UNCHANGED sessionVars
    \/ \E c \in Players : OnServerMessage(c)
    \/ \E c \in Players : Imported(c)
    \/ \E c \in Players : ConnectToGameContinues(c)
    \/ \E c \in Players : Succeeds(c)
    \/ \E c \in Players : Gathers(c)
    \/ \E c \in Players : Connects(c)
    \/ \E c \in Players, label \in Labels : Announced(c, label)
    \/ \E c \in Players, label \in Labels : Opens(c, label)
    \/ \E c \in Players : SendsMove(c)
    \/ \E o, c \in Players : Delivers(o, c)

\* the event loop runs every handler whose event is due, the browser
\* settles every operation and raises every event, the game sends its move
FairNegotiation ==
    /\ \A c \in Players : WF_vars(OnServerMessage(c))
    /\ \A c \in Players : WF_vars(Imported(c))
    /\ \A c \in Players : WF_vars(ConnectToGameContinues(c))
    /\ \A c \in Players : WF_vars(Succeeds(c))
    /\ \A c \in Players : WF_vars(Gathers(c))
    /\ \A c \in Players : WF_vars(Connects(c))
    /\ \A c \in Players, label \in Labels : WF_vars(Announced(c, label))
    /\ \A c \in Players, label \in Labels : WF_vars(Opens(c, label))
    /\ \A c \in Players : WF_vars(SendsMove(c))
    /\ \A o, c \in Players : WF_vars(Delivers(o, c))

SpecNegotiation == InitRelay /\ [][NextNegotiation]_vars /\ FairNegotiation

\* One manager and its session, the signals of the opponent arriving at any
\* moment of connectToGame(): before the match, during the import, while the
\* buffered offer is handled and between the buffered candidates.  The
\* opponent's session sends one offer; its candidates are numbered in the
\* order they arrive.
MatchArrives ==
    \E initiator \in BOOLEAN :
        /\ ~matchmakingComplete[Owner]
        /\ OnMatchFound(Owner, [role |-> IF initiator THEN "A" ELSE "B",
                                opponentId |-> "p2", isInitiator |-> initiator])
        /\ UNCHANGED <<isSignalingConnected, peerId, pendingOffer, pendingCandidates>>
        /\ ServerIdle /\ Untouched

SignalIdle ==
    UNCHANGED <<transport, now, calls, localVars, mgrVars, relayVars, connecting,
                poolVars, handed>>

OfferArrives ==
    /\ ~Busy(Owner)
    /\ budget.descriptions = 0
    /\ Spend("descriptions", MaxDescriptions)
    /\ HandleSignalingMessage(Owner, [data |-> "offer", from |-> "p2"])
    /\ SignalIdle

CandidateArrives ==
    /\ ~Busy(Owner)
    /\ Spend("candidates", MaxCandidates)
    /\ HandleSignalingMessage(Owner, [data |-> "ice-candidate",
                                      from |-> budget.candidates + 1])
    /\ SignalIdle

Settles ==
    \E ok \in BOOLEAN : ~Busy(Owner) /\ Resume(Owner, ok) /\ ManagersIdle

NextPending ==
    \/ MatchArrives
    \/ OfferArrives
    \/ CandidateArrives
    \/ Imported(Owner)
    \/ ConnectToGameContinues(Owner)
    \/ Settles

SpecPending == InitRelay /\ [][NextPending]_vars

\* The game calls connectToGame() itself, at any moment at which no call of
\* it is suspended: before the match, and with the session of the match in
\* any state its transport and its channels bring it to.
CallConnectToGame ==
    /\ connecting[Owner].at = "idle"
    /\ Spend("connects", MaxConnects)
    /\ ConnectToGameStarts(Owner, opponentId[Owner])
    /\ FieldsIdle /\ ServerIdle
    /\ UNCHANGED <<transport, now, calls, localVars, clients, readyState, socketEvents,
                   arrivals, emits, drops, peerId, pendingOffer, pendingCandidates,
                   poolVars, handed>>

NextConnect ==
    \/ MatchArrives
    \/ OfferArrives
    \/ CallConnectToGame
    \/ Imported(Owner)
    \/ Reimported(Owner)
    \/ ConnectToGameContinues(Owner)
    \/ Settles
    \/ ~Busy(Owner) /\ StateChange
    \/ ~Busy(Owner) /\ ChannelOpens

SpecConnect == InitRelay /\ [][NextConnect]_vars

Init == InitLocal \/ InitRelay

\* Values that are no message.  A handler is given a value before
\* JSON.parse: the text of a message (in the model the message itself), a
\* text that is no JSON, or null (the newValue of a removed key; the JSON
\* text null parses to it).
Unparsable == [type |-> "unparsable"]

Null == [type |-> "null"]

NoMessage == {Unparsable, Null}

\* JSON.parse(value) returns; JSON.parse(null) returns null
Parses(value) == value # Unparsable

\* message.targetPeer, message.type and data.type can be read
Reads(value) == value # Null

\* the try block runs up to the call of the handler
Reaches(value) == Parses(value) /\ Reads(value)

SessionsAsleep ==
    UNCHANGED <<peerVars, channelVars, queueVars, connInitiator, lifecycle, signals,
                tasks, raised, connectVars, poolVars, handed>>

\* the sender of a text that is no JSON loses the waiting slot
OnSocketDataResets(c, value) ==
    IF Reaches(value)
    THEN HandleMessage(c, value)
    ELSE waitingClient' = None /\ UNCHANGED <<client, outbox>>

\* ws.on('message') of the server: try { handleMessage(clientId, JSON.parse(message)) }
OnSocketData(c, value) ==
    IF Reaches(value)
    THEN HandleMessage(c, value)
    ELSE UNCHANGED <<client, waitingClient, outbox>>

\* a client sends the server a value that is no message
SendsNoMessage(c) ==
    /\ transport = "websocket"
    /\ readyState[c] = "OPEN"
    /\ Spend("malformed", MaxMalformed)
    /\ \E value \in NoMessage : OnSocketData(c, value)
    /\ SessionsAsleep
    /\ UNCHANGED <<arrivals, transport, now, calls, mgrVars, localVars, clients,
                   readyState, socketEvents, peerId, emits, drops>>

\* the socket of c delivers a value that is no message
Garbles(c) ==
    /\ transport = "websocket"
    /\ readyState[c] = "OPEN"
    /\ Spend("garbled", MaxMalformed)
    /\ \E value \in NoMessage : outbox' = [outbox EXCEPT ![c] = Append(@, value)]
    /\ SessionsAsleep
    /\ UNCHANGED <<arrivals, transport, now, calls, mgrVars, localVars, serverVars,
                   readyState, socketEvents, peerId, emits, drops>>

\* ws.onmessage: try { this.handleServerMessage(JSON.parse(event.data)) }
OnSocketMessage(c) ==
    /\ readyState[c] = "OPEN"
    /\ outbox[c] # <<>>
    /\ IF Reaches(Head(outbox[c]))
       THEN WsOnMessage(c)
       ELSE /\ outbox' = [outbox EXCEPT ![c] = Tail(@)]
            /\ UNCHANGED <<arrivals, transport, now, calls, mgrVars, localVars,
                           serverVars, readyState, socketEvents, peerId, emits, drops>>

\* the signaling key is removed (the timer of emitSignalingMessage, line
\* 465) or written with a text that is no message: a 'storage' event in
\* every other tab
WritesNoMessage(p) ==
    /\ transport = "localStorage"
    /\ Spend("garbled", MaxMalformed)
    /\ \A q \in Tabs \ {p} : Len(storageEvents[q]) < MaxPending
    /\ \E value \in NoMessage :
          storageEvents' = [q \in Tabs |-> IF q # p THEN Append(storageEvents[q], value)
                                          ELSE storageEvents[q]]
    /\ SessionsAsleep
    /\ UNCHANGED <<transport, now, calls, mgrVars, peersData, frame, timerVars,
                   stampVars, relayVars>>

\* the 'storage' listener: try { const message = JSON.parse(event.newValue);
\* if (message.targetPeer === this.peerId) ... }
OnStorageEvent(p) ==
    /\ At(p, "idle")
    /\ storageEvents[p] # <<>>
    /\ IF Reaches(Head(storageEvents[p]))
       THEN OnStorage(p)
       ELSE /\ storageEvents' = [storageEvents EXCEPT ![p] = Tail(@)]
            /\ UNCHANGED <<transport, now, calls, mgrVars, peersData, frame, timerVars,
                           stampVars, relayVars>>

\* a value is waiting at the open socket of c
Waits(c) == readyState[c] = "OPEN" /\ outbox[c] # <<>>

Silent == \A c \in Connections : ~Waits(c)

\* matchmaking in both variants with values that are no message among the
\* messages; nobody's timer fires and no socket fails, and a socket's values
\* are handled before the next request
NextMalformed ==
    \/ \E p \in Tabs : FindMatch(p) /\ UNCHANGED sessionVars
    \/ \E p \in Tabs : TabStep(p) /\ UNCHANGED sessionVars
    \/ \E p \in Tabs : OnStorageEvent(p) /\ UNCHANGED sessionVars
    \/ \E p \in Tabs : WritesNoMessage(p)
    \/ \E c \in Connections : OnSocketMessage(c) /\ UNCHANGED sessionVars
    \/ \E c \in Connections : Garbles(c)
    \/ \E c \in Connections : Silent /\ SendsNoMessage(c)
    \/ \E c \in Connections : Silent /\ OnConnection(c) /\ UNCHANGED sessionVars
    \/ \E c \in Connections : Silent /\ WsFindMatch(c) /\ UNCHANGED sessionVars
    \/ \E c \in Connections : Silent /\ WsDisconnect(c) /\ UNCHANGED sessionVars
    \/ \E c \in Connections : Silent /\ OnClose(c) /\ UNCHANGED sessionVars

SpecMalformed == Init /\ [][NextMalformed]_vars


Next == NextLocal \/ NextRelay

Spec == Init /\ [][Next]_vars

----------------------------------------------------------------------------
(* Properties of the relay server *)

Last(s) == s[Len(s)]

Initiator(opponent) == [role |-> "A", isInitiator |-> TRUE, opponentId |-> opponent]

Responder(opponent) == [role |-> "B", isInitiator |-> FALSE, opponentId |-> opponent]

\* the fields of a match-found message that tell a client its part
MatchFoundFor(part) ==
    [type |-> "match-found", role |-> part.role, opponentId |-> part.opponentId,
     isInitiator |-> part.isInitiator, from |-> None, data |-> None]

\* what a connection receives in a step
Receives(c, messages) == outbox'[c] = outbox[c] \o messages

\* C6: when connection c calls find-match while another connection w holds
\* the waiting slot, the server records w as 'A' / initiator with opponent c
\* and c as 'B' / responder with opponent w, sends each of them (w if its
\* socket is still open) one match-found message with exactly these fields,
\* sends nothing to anybody else and leaves the waiting slot empty.
C6_PairingByArrival ==
    [][\A c \in Connections :
          (WsFindMatch(c) /\ waitingClient # None /\ waitingClient # c) =>
              LET w == waitingClient
              IN  /\ client'[w] = Initiator(c)
                  /\ client'[c] = Responder(w)
                  /\ Receives(c, <<MatchFoundFor(Responder(w))>>)
                  /\ Receives(w, IF readyState[w] = "OPEN"
                                 THEN <<MatchFoundFor(Initiator(c))>> ELSE <<>>)
                  /\ \A x \in Connections \ {c, w} : Receives(x, <<>>)
                  /\ waitingClient' = None]_vars

\* a pair was just formed: both match-found messages are on their way
C6_Paired ==
    \E w, c \in Connections :
        /\ w # c
        /\ arrivals # <<>> /\ Last(arrivals) = c
        /\ client[w] = Initiator(c) /\ client[c] = Responder(w)
        /\ outbox[w] # <<>> /\ Last(outbox[w]) = MatchFoundFor(Initiator(c))
        /\ outbox[c] # <<>> /\ Last(outbox[c]) = MatchFoundFor(Responder(w))
        /\ waitingClient = None

\* no connection called find-match twice and no socket went down
DistinctArrivals ==
    /\ drops = 0
    /\ \A i, j \in DOMAIN arrivals : i # j => arrivals[i] # arrivals[j]

Unmatched == [role |-> "null", isInitiator |-> FALSE, opponentId |-> None]

\* the arrivals are paired two by two in their order, the last of an odd
\* number holding the waiting slot
PairedInOrder ==
    /\ \A i \in DOMAIN arrivals :
          client[arrivals[i]] =
              IF i % 2 = 0 THEN Responder(arrivals[i - 1])
              ELSE IF i < Len(arrivals) THEN Initiator(arrivals[i + 1])
              ELSE Unmatched
    /\ waitingClient = IF Len(arrivals) % 2 = 1 THEN Last(arrivals) ELSE None

\* C7: while the callers of find-match are distinct connections and nothing
\* disconnects, the k-th caller is paired with the (k+1)-th for odd k and
\* with the (k-1)-th for even k, and with no one else, so that a formed pair
\* is never changed by later arrivals; an odd-numbered caller finds the slot
\* empty, takes it and is sent `waiting`, and changes no client's record.
C7_FifoStable ==
    /\ [](DistinctArrivals => PairedInOrder)
    /\ [][\A c \in Connections :
            (WsFindMatch(c) /\ DistinctArrivals' /\ Len(arrivals') % 2 = 1) =>
                /\ waitingClient = None
                /\ waitingClient' = c
                /\ Receives(c, <<[type |-> "waiting", role |-> "null",
                                  opponentId |-> None, isInitiator |-> FALSE,
                                  from |-> None, data |-> None]>>)
                /\ client' = client]_vars

\* P1..P4 arrived: P1 is paired with P2 and P3 with P4
C7_TwoPairs ==
    /\ DistinctArrivals
    /\ Len(arrivals) = 4
    /\ client[arrivals[1]] = Initiator(arrivals[2])
    /\ client[arrivals[2]] = Responder(arrivals[1])
    /\ client[arrivals[3]] = Initiator(arrivals[4])
    /\ client[arrivals[4]] = Responder(arrivals[3])
    /\ waitingClient = None

\* x is a client of the server and its socket is open
Connected(x) == (\E i \in DOMAIN clients : clients[i] = x) /\ readyState[x] = "OPEN"

\* C8: a signal sent by c when the opponent recorded for c is connected puts
\* exactly one message on that opponent's socket, of type `signal`, from c
\* and with c's data, and no message on any other socket.
C8_SignalForwarded ==
    [][\A c \in Connections, data \in SignalData :
          (WsEmit(c, data) /\ client[c].opponentId # None
                           /\ Connected(client[c].opponentId)) =>
              \E message \in [type : {"signal"}, role : {"null"}, opponentId : {None},
                               isInitiator : {FALSE}, from : {c}, data : {data}] :
                  /\ Receives(client[c].opponentId, <<message>>)
                  /\ \A x \in Connections \ {client[c].opponentId} :
                        Receives(x, <<>>)]_vars

\* a signal from the recorded opponent waits at a connection's socket
C8_SignalInFlight ==
    \E c, x \in Connections :
        /\ client[c].opponentId = x
        /\ outbox[x] # <<>>
        /\ Last(outbox[x]).type = "signal"
        /\ Last(outbox[x]).from = c
        /\ Last(outbox[x]).data \in SignalData

\* C9: a signal sent by c when no opponent is recorded for c, or when the
\* recorded opponent is not connected, leaves every socket and the server's
\* state as they were; and a signal message is only ever put on a socket in
\* the step in which its sender sends that data, so none is delivered later.
C9_SignalDropped ==
    /\ [][\A c \in Connections, data \in SignalData :
            (WsEmit(c, data) /\ (\/ client[c].opponentId = None
                                 \/ ~Connected(client[c].opponentId))) =>
                UNCHANGED <<outbox, serverVars>>]_vars
    /\ [][\A x \in Connections :
            (Len(outbox'[x]) > Len(outbox[x]) /\ Last(outbox'[x]).type = "signal") =>
                WsEmit(Last(outbox'[x]).from, Last(outbox'[x]).data)]_vars

\* a signal was sent while the server had paired nobody, and nothing is on
\* any socket
C9_DroppedUnpaired ==
    /\ emits > 0
    /\ \A c \in Connections : client[c].opponentId = None
    /\ \A c \in Connections : outbox[c] = <<>>
    /\ \E c \in Connections : readyState[c] = "OPEN"

\* C10: when the server's close handler runs for a connection c whose record
\* names an opponent that is connected, that opponent is sent one
\* `peer-disconnected` message in that step, whichever other pairs exist and
\* whether or not the error handler ran for c before.
C10_OpponentNotified ==
    [][\A c \in Connections :
          (OnClose(c) /\ client[c].opponentId # None
                      /\ Connected(client[c].opponentId)) =>
              \E message \in [type : {"peer-disconnected"}, role : {"null"},
                               opponentId : {None}, isInitiator : {FALSE},
                               from : {None}, data : {None}] :
                  Receives(client[c].opponentId, <<message>>)]_vars

----------------------------------------------------------------------------
(* Properties of the matchmaking *)

Initiators == {p \in Tabs : role[p] = "A" /\ isInitiator[p]}

Responders == {p \in Tabs : role[p] = "B"}

\* p's next polling tick would demote it
DemotionEnabled(p) ==
    /\ pollIntervals[p] > 0
    /\ ~matchmakingComplete[p]
    /\ \E t \in Clock : MustYield(PollHosts(Peers, t), p)

\* every call has registered, no verification is pending, no demotion is
\* enabled or under way
VerificationSettled ==
    \A p \in Tabs : At(p, "idle") /\ verifyTimers[p] = 0 /\ ~DemotionEnabled(p)

\* C1: when the tabs that called findMatch() registered with pairwise
\* distinct timestamps, none disconnected and verification has settled,
\* exactly one tab has role 'A' with isInitiator = true.
C1_OneInitiatorSettled ==
    (calls > 0 /\ drops = 0 /\ stampsDistinct /\ VerificationSettled)
        => Cardinality(Initiators) = 1

\* C2: in every state at most one tab has role 'A' and at most one has role
\* 'B' (no tab having disconnected).
C2_OneInitiatorOneResponder ==
    drops = 0 => Cardinality(Initiators) <= 1 /\ Cardinality(Responders) <= 1

\* nothing is left to run in any tab: no handler, no verification, no
\* undelivered storage event, no demotion by a polling tick
TabsQuiet ==
    \A p \in Tabs :
        /\ At(p, "idle")
        /\ verifyTimers[p] = 0
        /\ storageEvents[p] = <<>>
        /\ ~DemotionEnabled(p)

\* the server has handled every socket event and every client every message
SocketsQuiet ==
    \A c \in Connections : socketEvents[c] = <<>> /\ outbox[c] = <<>>

\* exactly two tabs called findMatch(), once each, within the liveness window
TwoTabsCalled ==
    /\ transport = "localStorage"
    /\ calls = 2 /\ drops = 0
    /\ Started(TabOrder[1]) /\ Started(TabOrder[2])
    /\ now < LivenessWindow

\* exactly two connections called findMatch(), once each
TwoConnectionsCalled ==
    /\ transport = "websocket"
    /\ Len(arrivals) = 2 /\ arrivals[1] # arrivals[2]
    /\ drops = 0

\* C3: when two participants have called findMatch() within the liveness
\* window, neither has disconnected, and every timer, handler and message
\* delivery that was due has run, both have emitted match_found; in the
\* localStorage deployment and in the websocket deployment.
C3_BothMatched ==
    /\ (TwoTabsCalled /\ TabsQuiet) =>
           emitted[TabOrder[1]] # <<>> /\ emitted[TabOrder[2]] # <<>>
    /\ (TwoConnectionsCalled /\ SocketsQuiet) =>
           emitted[arrivals[1]] # <<>> /\ emitted[arrivals[2]] # <<>>

\* x emits match_found in this step
Emits(x) == Len(emitted'[x]) = Len(emitted[x]) + 1

\* one event is the initiator's and the other the responder's
Complementary(e, f) ==
    /\ {e.role, f.role} = {"A", "B"}
    /\ e.isInitiator = (e.role = "A")
    /\ f.isInitiator = (f.role = "A")

\* whom y is matched with: by the server's record of y, or for a tab by its
\* own completed match
MatchOf(y) ==
    IF transport = "websocket" THEN client[y].opponentId
    ELSE IF matchmakingComplete[y] THEN opponentId[y] ELSE None

\* C4: two participants that each emitted match_found once, naming each
\* other, emitted complementary roles ('A' with isInitiator = true and 'B'
\* with isInitiator = false); and whenever a participant emits match_found,
\* the opponent it names is another participant that does not hold a match
\* with somebody else.
C4_MutualPairing ==
    /\ [](\A x, y \in Participants :
            (/\ x # y
             /\ Len(emitted[x]) = 1 /\ emitted[x][1].opponentId = y
             /\ Len(emitted[y]) = 1 /\ emitted[y][1].opponentId = x)
                => Complementary(emitted[x][1], emitted[y][1]))
    /\ [][\A x \in Participants :
            Emits(x) =>
                \E y \in Participants \ {x} :
                    /\ y = Last(emitted'[x]).opponentId
                    /\ MatchOf(y)' \in {x, None}]_vars

IsPrefix(s, t) == Len(s) <= Len(t) /\ \A i \in DOMAIN s : s[i] = t[i]

\* the pairs <<waiting, caller>> that a sequence of find-match requests
\* forms when nothing disconnects, w being the connection that waits
RECURSIVE PairsFrom(_, _)
PairsFrom(requests, w) ==
    IF requests = <<>> THEN <<>>
    ELSE IF w # None /\ w # Head(requests)
         THEN <<(<<w, Head(requests)>>)>> \o PairsFrom(Tail(requests), None)
         ELSE PairsFrom(Tail(requests), Head(requests))

\* the match_found events that x's pairings call for, in order
EventsDue(x) ==
    LET mine == SelectSeq(PairsFrom(arrivals, None), LAMBDA pair : x \in {pair[1], pair[2]})
    IN  [i \in DOMAIN mine |->
            IF mine[i][1] = x
            THEN [role |-> "A", opponentId |-> mine[i][2], isInitiator |-> TRUE]
            ELSE [role |-> "B", opponentId |-> mine[i][1], isInitiator |-> FALSE]]

\* C5: while nobody disconnects, (websocket) the match_found events of a
\* connection are, in order and once each, those of the pairs the server
\* formed with it; (localStorage) a tab emits match_found at most once and
\* only after it called findMatch(), an initiator emits it naming a
\* responder that asked to join it, and a responder emits it naming an
\* initiator that has emitted match_found naming that responder.
C5_OncePerPairing ==
    /\ [](drops = 0 =>
            /\ \A x \in Connections :
                  transport = "websocket" => IsPrefix(emitted[x], EventsDue(x))
            /\ \A x \in Tabs :
                  transport = "localStorage" =>
                      /\ Len(emitted[x]) <= 1
                      /\ emitted[x] # <<>> => Started(x))
    /\ [][\A x, y \in Tabs :
            (drops = 0 /\ transport = "localStorage" /\ Emits(x)
                       /\ y = Last(emitted'[x]).opponentId) =>
                IF Last(emitted'[x]).role = "A"
                THEN role[y] = "B" /\ opponentId[y] = x
                ELSE \E i \in DOMAIN emitted[y] :
                        emitted[y][i] = [role |-> "A", opponentId |-> x,
                                         isInitiator |-> TRUE]]_vars

\* a connection was paired twice and emitted match_found for both pairs, and
\* nobody disconnected
C5_TwoPairingsTwoEvents ==
    /\ drops = 0
    /\ \E x \in Connections : Len(emitted[x]) = 2 /\ emitted[x] = EventsDue(x)

----------------------------------------------------------------------------
(* Disconnects at the relay server *)

\* the server has handled the 'close' of c's socket
Departed(c) == readyState[c] = "CLOSED" /\ socketEvents[c] = <<>>

\* C11: the close handler of the connection in the waiting slot empties the
\* slot and the close handler of any other connection leaves the slot as it
\* is; a connection whose close was handled is never in the slot; a
\* find-match that meets an empty slot is answered with `waiting` and takes
\* the slot, and no find-match is answered with a match-found that names a
\* connection whose close was handled, nor changes that connection's record.
C11_WaitingSlotCleared ==
    /\ [](\A c \in Connections : Departed(c) => waitingClient # c)
    /\ [][\A c \in Connections :
            /\ OnClose(c) =>
                  waitingClient' = IF waitingClient = c THEN None ELSE waitingClient
            /\ (WsFindMatch(c) /\ waitingClient = None) =>
                  Receives(c, <<WaitingMessage>>) /\ waitingClient' = c
            /\ WsFindMatch(c) =>
                  \A d \in Connections :
                      Departed(d) =>
                          /\ client'[d] = client[d]
                          /\ Last(outbox'[c]).opponentId # d]_vars

\* p1 took the waiting slot and left; p2, calling find-match afterwards, was
\* not paired with it and waits
C11_WaitsAfterLeaver ==
    /\ arrivals = <<"p1", "p2">>
    /\ Departed("p1")
    /\ waitingClient = "p2"
    /\ client["p2"].role = "null"

----------------------------------------------------------------------------
(* Messages that reach a matched tab *)

\* tab p handles the storage event at the head of its queue, of this type
Handles(p, type) ==
    /\ OnStorage(p)
    /\ Head(storageEvents[p]).type = type

\* p's handler changed nothing of p, sent nothing and wrote nothing
Ignored(p) ==
    /\ emitted'[p] = emitted[p]
    /\ opponentId'[p] = opponentId[p]
    /\ role'[p] = role[p]
    /\ isInitiator'[p] = isInitiator[p]
    /\ matchmakingComplete'[p] = matchmakingComplete[p]
    /\ gameConnection'[p] = gameConnection[p]
    /\ frame'[p] = frame[p]
    /\ peersData' = peersData
    /\ \A q \in Tabs \ {p} : storageEvents'[q] = storageEvents[q]

\* C17: a join-request handled by an initiator that is matched with a
\* responder other than the sender, and a join-accept handled by a responder
\* that has completed matchmaking, are ignored: no match_found, no message,
\* no change of the tab's match state or of the registry.
C17_LateMessagesIgnored ==
    [][\A p \in Tabs :
        /\ (/\ Handles(p, "join-request")
            /\ role[p] = "A" /\ matchmakingComplete[p]
            /\ opponentId[p] \notin {None, Head(storageEvents[p]).fromPeer})
                => Ignored(p)
        /\ (/\ Handles(p, "join-accept")
            /\ role[p] = "B" /\ matchmakingComplete[p])
                => Ignored(p)]_vars

\* p1 is matched with p2 and has handled the join-request of p3, which is
\* still waiting to be accepted
C17_ThirdTabIgnored ==
    /\ drops = 0
    /\ role["p1"] = "A" /\ matchmakingComplete["p1"] /\ opponentId["p1"] = "p2"
    /\ Len(emitted["p1"]) = 1
    /\ role["p3"] = "B" /\ opponentId["p3"] = "p1" /\ ~matchmakingComplete["p3"]
    /\ At("p1", "idle") /\ At("p3", "idle")
    /\ storageEvents["p1"] = <<>>

----------------------------------------------------------------------------
(* The pending candidate queue of a session *)

Elements(s) == {s[i] : i \in DOMAIN s}

NoRepeats(s) == \A i, j \in DOMAIN s : i # j => s[i] # s[j]

\* the buffered candidates among those applied, in the order of application
Flushed(p) == SelectSeq(applied[p], LAMBDA c : c \in Elements(queued[p]))

\* C12: the buffered candidates that have been applied are the first ones
\* buffered, applied in the order they were buffered; no candidate is
\* applied twice, and a candidate still in the queue has not been applied.
C12_FlushedInOrder ==
    \A p \in Participants :
        /\ IsPrefix(Flushed(p), queued[p])
        /\ NoRepeats(applied[p])
        /\ Elements(pendingRemoteCandidates[p]) \cap Elements(applied[p]) = {}

\* three candidates were buffered and flushed, after an offer and an answer
C12_ThreeFlushed ==
    /\ queued[Owner] = <<1, 2, 3>>
    /\ applied[Owner] = <<1, 2, 3>>
    /\ budget.descriptions = 2
    /\ tasks[Owner] = <<>>

\* C13: once the remote description of an open session is set and its
\* handlers have run to their end, the pending queue is empty (whatever
\* negotiation step failed after the description was set).
C13_DrainedAfterDescription ==
    \A p \in Participants :
        (/\ peerConnection[p] = "open"
         /\ remoteDescription[p] # "null"
         /\ tasks[p] = <<>>) => pendingRemoteCandidates[p] = <<>>

\* C14: a candidate handed to an open session that has a remote description
\* is applied at once and not queued, and the call leaves the channel
\* handles, their states, isConnected and the emitted events as they are.
C14_AppliedDirectly ==
    [][\A p \in Participants, c \in 1..(MaxCandidates + 1) :
        (/\ HandleCandidate(p, c)
         /\ peerConnection[p] = "open"
         /\ remoteDescription[p] # "null")
            => /\ applied'[p] = Append(applied[p], c)
               /\ UNCHANGED <<pendingRemoteCandidates, queued>>
               /\ UNCHANGED <<dataChannels, isConnected, lifecycle>>]_vars

\* a candidate arrived after the reliable channel had opened and was applied
C14_LateCandidateApplied ==
    /\ dataChannels[Owner].game_reliable = "open"
    /\ isConnected[Owner]
    /\ applied[Owner] = <<1>>
    /\ queued[Owner] = <<>>

----------------------------------------------------------------------------
(* send() and close() *)

\* C15: send() returns true exactly when the selected channel is open; then
\* the payload is written to that channel and nothing else changes; else
\* nothing is written and no exception leaves the call.  Nothing but such
\* a send() ever writes to a channel.
C15_SendIffOpen ==
    [][\A p \in Participants :
        /\ \A data \in Payloads, reliable \in BOOLEAN :
              Send(p, data, reliable) =>
                  LET label == IF reliable THEN "game_reliable" ELSE "game_unreliable"
                      open == dataChannels[p][label] = "open"
                  IN  /\ returned'[p] = IF open THEN "true" ELSE "false"
                      /\ written'[p] =
                            IF open
                            THEN Append(written[p], [channel |-> label, data |-> data])
                            ELSE written[p]
                      /\ raised' = raised
                      /\ UNCHANGED <<peerVars, dataChannels, isConnected, queueVars,
                                     lifecycle, signals, tasks>>
        /\ written'[p] # written[p] =>
              \E data \in Payloads, reliable \in BOOLEAN : Send(p, data, reliable)]_vars

\* the unreliable channel is open and the reliable one is not; a send() on
\* the unreliable channel has returned true
C15_UnreliableWritten ==
    /\ dataChannels[Owner].game_unreliable = "open"
    /\ dataChannels[Owner].game_reliable # "open"
    /\ returned[Owner] = "true"
    /\ written[Owner] = <<[channel |-> "game_unreliable", data |-> "move"]>>

\* both channels and the peer connection are closed or were never created
ClosedSession(p) ==
    /\ peerConnection[p] \in {"null", "closed"}
    /\ \A label \in Labels : dataChannels[p][label] \in {"null", "closed"}
    /\ ~isConnected[p]
    /\ tasks[p] = <<>>

\* C16: close() leaves a closed session, and close() on a closed session
\* changes nothing of the session, emits no event and raises nothing.
C16_CloseIdempotent ==
    [][\A p \in Participants :
        Close(p) =>
            /\ ClosedSession(p)'
            /\ lifecycle' = lifecycle /\ raised' = raised
            /\ ClosedSession(p) => UNCHANGED <<peerVars, channelVars, queueVars,
                                               connInitiator, signals, tasks>>]_vars

\* a session whose reliable channel had opened was closed twice
C16_ClosedTwice ==
    /\ budget.closes = 2
    /\ peerConnection[Owner] = "closed"
    /\ \E i \in DOMAIN lifecycle[Owner] : lifecycle[Owner][i].name = "game_datachannel_open"

----------------------------------------------------------------------------
(* Lifecycle events *)

\* p emits an event of this name in the step
EmitsEvent(p, name) ==
    /\ Len(lifecycle'[p]) = Len(lifecycle[p]) + 1
    /\ Last(lifecycle'[p]).name = name

\* C19: game_connection_established is emitted only in a step that takes
\* the connection state to 'connected', game_connection_lost only in a step
\* that takes it to 'disconnected' or 'failed', and game_datachannel_open in
\* exactly the steps in which the reliable channel becomes open; a step emits
\* at most one event.
C19_DistinctSignals ==
    [][\A p \in Participants :
        /\ Len(lifecycle'[p]) <= Len(lifecycle[p]) + 1
        /\ EmitsEvent(p, "game_connection_established") =>
              connectionState[p] # "connected" /\ connectionState'[p] = "connected"
        /\ EmitsEvent(p, "game_connection_lost") =>
              /\ connectionState'[p] # connectionState[p]
              /\ connectionState'[p] \in {"disconnected", "failed"}
        /\ EmitsEvent(p, "game_datachannel_open") <=>
              /\ dataChannels[p].game_reliable # "open"
              /\ dataChannels'[p].game_reliable = "open"]_vars

\* the transport is connected and the unreliable channel is open, the
\* reliable channel is not: only game_connection_established was emitted
C19_TransportWithoutChannel ==
    /\ connectionState[Owner] = "connected"
    /\ dataChannels[Owner].game_unreliable = "open"
    /\ dataChannels[Owner].game_reliable = "connecting"
    /\ lifecycle[Owner] = <<LifecycleEvent("game_connection_established", None, None)>>

----------------------------------------------------------------------------
(* Failing operations *)

\* the operation awaited by the oldest suspended handler of p fails
Fails(p) == Resume(p, FALSE) /\ Head(tasks[p]).awaits # "addIceCandidate"

\* C20: no exception leaves a handler; when an operation of offer or answer
\* production or a description fails, the handler ends: nothing is sent, the
\* descriptions and the candidates stay as they are and no operation is
\* started again; a candidate whose application fails is not queued again.
C20_FailuresContained ==
    /\ [](~raised)
    /\ [][\A p \in Participants :
            /\ Fails(p) =>
                  /\ signals'[p] = signals[p]
                  /\ tasks'[p] = Tail(tasks[p])
                  /\ UNCHANGED <<peerVars, channelVars, queueVars, lifecycle>>
            /\ \A ok \in BOOLEAN :
                  Resume(p, ok) =>
                      /\ IsPrefix(applied[p], applied'[p])
                      /\ queued'[p] = queued[p]
                      /\ Len(pendingRemoteCandidates'[p]) <= Len(pendingRemoteCandidates[p])]_vars

\* handleOffer failed after the remote description was set: no answer was
\* sent and nothing is pending
C20_AnswerFailed ==
    /\ peerConnection[Owner] = "open" /\ ~connInitiator[Owner]
    /\ remoteDescription[Owner] = "offer"
    /\ localDescription[Owner] = "null"
    /\ signals[Owner] = <<>>
    /\ tasks[Owner] = <<>>
    /\ budget.descriptions = 1

----------------------------------------------------------------------------
(* End-to-end negotiation *)

Sent(c, type) == \E i \in DOMAIN signals[c] : signals[c][i] = type

\* both managers emitted match_found, with complementary roles
PairMatched ==
    /\ \A c \in Players : emitted[c] # <<>>
    /\ \E c \in Players : Last(emitted[c]).isInitiator
    /\ \E c \in Players : ~Last(emitted[c]).isInitiator

OfferSent == \E c \in Players : isInitiator[c] /\ Sent(c, "offer")

AnswerSent == \E c \in Players : ~isInitiator[c] /\ Sent(c, "answer")

BothReady == \A c \in Players : Ready(c)

\* the responder emitted game_data_received with the payload, on 'game_reliable'
MoveReceived ==
    \E c \in Players :
        /\ ~isInitiator[c]
        /\ \E i \in DOMAIN lifecycle[c] :
              lifecycle[c][i] = LifecycleEvent("game_data_received", "move", "game_reliable")

\* C18: once both managers of a pair have emitted match_found, the initiator
\* eventually sends an offer, then the responder an answer, then both sides
\* emit game_datachannel_open, in that order; the send(payload, true) of the
\* initiator that follows returns true and the responder eventually emits
\* game_data_received with that payload on channel 'game_reliable'.
C18_NegotiationCompletes ==
    /\ PairMatched ~> OfferSent
    /\ OfferSent ~> AnswerSent
    /\ AnswerSent ~> BothReady
    /\ BothReady ~> MoveReceived
    /\ [](\A c \in Players : Sent(c, "offer") => emitted[c] # <<>> /\ isInitiator[c])
    /\ [](\A c \in Players : Sent(c, "answer") =>
                                  emitted[c] # <<>> /\ ~isInitiator[c] /\ OfferSent)
    /\ []((\E c \in Players : Ready(c)) => AnswerSent)
    /\ [](\A c \in Players : returned[c] # "false")
    /\ [](MoveReceived => \E c \in Players : isInitiator[c] /\ returned[c] = "true")

\* the move the initiator sent has reached the responder
C18_MoveDelivered ==
    /\ MoveReceived
    /\ BothReady
    /\ \E c \in Players : isInitiator[c] /\ returned[c] = "true" /\ Len(written[c]) = 1

----------------------------------------------------------------------------
(* Broadcast matchmaking: cancellation *)

\* p has an entry in what is stored under 'local-game-peers'
Registered(stored, p) ==
    stored.present /\ \E i \in DOMAIN stored.peers : stored.peers[i].id = p

\* p writes a signaling message in this step
Writes(p) ==
    \E q \in Tabs :
        /\ Len(storageEvents'[q]) > Len(storageEvents[q])
        /\ Last(storageEvents'[q]).fromPeer = p

\* C21: once a tab has called disconnect(), and until it calls findMatch()
\* again, it emits no match_found, writes no join-request and no
\* join-accept, and no write of its own puts an entry for it into the
\* registry.
C21_DisconnectCancels ==
    [][\A p \in Tabs :
        left[p] /\ left'[p] =>
            /\ emitted'[p] = emitted[p]
            /\ ~Writes(p)
            /\ (frame'[p] # frame[p] /\ peersData' # peersData)
                  => ~Registered(peersData', p)]_vars

----------------------------------------------------------------------------
(* Relay ordering *)

\* the signals of sender c among these messages, by their numbers
SignalsFrom(c, messages) ==
    SelectSeq(messages, LAMBDA m : m.type = "signal" /\ m.from = c)

Increasing(messages) ==
    \A i, j \in DOMAIN messages : i < j => messages[i].data < messages[j].data

\* C22: the signals one sender sent, numbered in the order sent, wait at a
\* receiver in that order and at no two receivers; the server adds a signal
\* behind what it sent the receiver before, to the sender's opponent alone,
\* and a receiver handles what waits for it from the front.
C22_SignalsInOrder ==
    /\ [](\A c, x \in Connections : Increasing(SignalsFrom(c, outbox[x])))
    /\ [](\A c, x, y \in Connections :
            x # y => \A i \in DOMAIN outbox[x], j \in DOMAIN outbox[y] :
                        ~(/\ outbox[x][i].type = "signal" /\ outbox[y][j].type = "signal"
                          /\ outbox[x][i].data = outbox[y][j].data))
    /\ [][\A x \in Connections :
            \/ outbox'[x] = outbox[x]
            \/ outbox[x] # <<>> /\ outbox'[x] = Tail(outbox[x])
            \/ \E m \in {outbox'[x][i] : i \in DOMAIN outbox'[x]} :
                  /\ outbox'[x] = Append(outbox[x], m)
                  /\ m.type = "signal" => m.data = emits' /\ client[m.from].opponentId = x
            \/ \E m, n \in {outbox'[x][i] : i \in DOMAIN outbox'[x]} :
                  outbox'[x] = outbox[x] \o <<m, n>> /\ m.type # "signal" /\ n.type # "signal"]_vars

\* three signals of one sender wait at its opponent
C22_ThreeWaiting ==
    \E c, x \in Connections :
        /\ client[c].opponentId = x
        /\ Len(SignalsFrom(c, outbox[x])) = 3

----------------------------------------------------------------------------
(* Sessions of a manager *)

Live(sessions) == {i \in DOMAIN sessions : sessions[i] # "closed"}

\* C23: of the sessions a manager created at most one is not closed, and a
\* step that creates a session leaves every older session of the manager
\* closed.
C23_OneLiveSession ==
    \A c \in Connections : Cardinality(Live(created[c])) <= 1

----------------------------------------------------------------------------
(* The acceptance step of broadcast matchmaking *)

\* p, an initiator without opponent and not matched, handles a join-request
Accepts(p) ==
    /\ Handles(p, "join-request")
    /\ role[p] = "A" /\ opponentId[p] = None /\ ~matchmakingComplete[p]

\* p ends the handler of a join-request it accepted
EndsAccept(p) == At(p, "accept") /\ frame'[p] # frame[p]

\* C24: an initiator (role 'A') without opponent and not matched that
\* handles a join-request from G records G as its opponent and, when the
\* handler ends, has no registry entry of its own that is still looking for
\* a match, has sent one join-accept addressed to G and has emitted
\* match_found naming G; and a tab emits match_found only at the end of such
\* a handler or, as responder, when it handles a join-accept whose sender is
\* the opponent it recorded.
C24_AcceptanceStep ==
    [][\A p \in Tabs :
        /\ Accepts(p) =>
              /\ opponentId'[p] = Head(storageEvents[p]).fromPeer
              /\ matchmakingComplete'[p]
              /\ At(p, "accept")'
        /\ EndsAccept(p) =>
              /\ role[p] = "A" /\ opponentId[p] # None /\ opponentId'[p] = opponentId[p]
              /\ \A i \in DOMAIN peersData'.peers :
                    peersData'.peers[i].id = p => ~peersData'.peers[i].lookingForMatch
              /\ storageEvents' =
                    [storageEvents EXCEPT ![opponentId[p]] =
                        Append(@, Message("join-accept", p, opponentId[p]))]
              /\ emitted'[p] =
                    Append(emitted[p], MatchFoundEvent("A", opponentId[p], isInitiator[p]))
        /\ emitted'[p] # emitted[p] =>
              \/ EndsAccept(p)
              \/ /\ Handles(p, "join-accept")
                 /\ role[p] = "B"
                 /\ Head(storageEvents[p]).fromPeer = opponentId[p]
                 /\ emitted'[p] =
                       Append(emitted[p], MatchFoundEvent("B", opponentId[p], isInitiator[p]))]_vars

----------------------------------------------------------------------------
(* The verification step of broadcast matchmaking *)

\* the initiators verification finds at time t: the entries that are active,
\* stamped within the liveness window, of role 'A' and looking for a match
InitiatorsAt(t) ==
    {i \in DOMAIN Peers :
        /\ Peers[i].active /\ t - Peers[i].timestamp < LivenessWindow
        /\ Peers[i].role = "A" /\ Peers[i].lookingForMatch}

\* no initiator found at time t registered before entry i did
IsEarliestAt(t, i) ==
    /\ i \in InitiatorsAt(t)
    /\ \A j \in InitiatorsAt(t) : Peers[i].timestamp <= Peers[j].timestamp

\* the verification timer of p fires in this step
Verifies(p) == verifyTimers'[p] < verifyTimers[p]

\* switchToGuest of p ends in this step
EndsSwitch(p) == At(p, "switchToGuestWrite") /\ frame'[p] # frame[p]

\* C25: when the verification of a tab finds more than one initiator (an
\* active entry of role 'A' that is looking for a match), a tab that is
\* among those with the earliest timestamp and is the one chosen keeps its
\* role and starts polling, and any other tab goes on to switchToGuest with
\* an initiator of the earliest timestamp as host; switchToGuest leaves the
\* tab with role 'B', not initiator, the host as opponent, one registry
\* entry of its own, which is a responder's, and one join-request sent to
\* the host.
C25_VerificationStep ==
    [][\A p \in Tabs :
        /\ (Verifies(p) /\ Cardinality(InitiatorsAt(now')) > 1) =>
              \/ /\ \E i \in DOMAIN Peers : IsEarliestAt(now', i) /\ Peers[i].id = p
                 /\ role'[p] = role[p] /\ frame'[p] = frame[p]
                 /\ pollHandle'[p]
                 /\ peersData' = peersData /\ storageEvents' = storageEvents
              \/ /\ At(p, "switchToGuest")'
                 /\ frame'[p].host # p
                 /\ \E i \in DOMAIN Peers :
                       IsEarliestAt(now', i) /\ Peers[i].id = frame'[p].host
                 /\ peersData' = peersData /\ storageEvents' = storageEvents
        /\ (Verifies(p) /\ Cardinality(InitiatorsAt(now')) <= 1) =>
              /\ role'[p] = role[p] /\ frame'[p] = frame[p] /\ pollHandle'[p]
        /\ EndsSwitch(p) =>
              /\ role'[p] = "B" /\ ~isInitiator'[p]
              /\ opponentId'[p] = frame[p].host
              /\ Len(SelectSeq(peersData'.peers, LAMBDA e : e.id = p)) = 1
              /\ \A i \in DOMAIN peersData'.peers :
                    peersData'.peers[i].id = p =>
                        /\ peersData'.peers[i].role = "B"
                        /\ peersData'.peers[i].matchedWith = frame[p].host
              /\ storageEvents' =
                    [storageEvents EXCEPT ![frame[p].host] =
                        Append(@, Message("join-request", p, frame[p].host))]]_vars

\* p2, registered as initiator after p1, has found both at its verification
\* and is switching to guest of p1
C25_LaterInitiatorDemoted ==
    /\ drops = 0
    /\ role["p1"] = "A" /\ role["p2"] = "A"
    /\ At("p2", "switchToGuestWrite") /\ frame["p2"].host = "p1"
    /\ \E i, j \in DOMAIN Peers :
          /\ Peers[i].id = "p1" /\ Peers[j].id = "p2"
          /\ Peers[i].role = "A" /\ Peers[j].role = "A"
          /\ Peers[i].timestamp < Peers[j].timestamp

----------------------------------------------------------------------------
(* The polling step of broadcast matchmaking *)

\* the entries of role 'A' a poll finds at time t
PolledAt(t) ==
    {i \in DOMAIN Peers :
        /\ Peers[i].active /\ t - Peers[i].timestamp < LivenessWindow
        /\ Peers[i].role = "A"}

\* the poll of p at time t finds p's entry and an initiator registered
\* before it
FindsEarlier(p, t) ==
    \E i, j \in PolledAt(t) :
        /\ Peers[i].id = p /\ Peers[j].id # p
        /\ \A k \in PolledAt(t) : Peers[k].id = p => Peers[j].timestamp < Peers[k].timestamp

\* p yields at a poll: its interval is cleared and the handler goes on to
\* remove p's registration and to join an initiator of the earliest timestamp
Yields(p, t) ==
    /\ At(p, "pollRemove")'
    /\ ~pollHandle'[p]
    /\ \E j \in PolledAt(t) :
          /\ Peers[j].id = frame'[p].host
          /\ \A k \in PolledAt(t) : Peers[j].timestamp <= Peers[k].timestamp

\* a poll of p, not matched, finds an earlier initiator and does not yield
PollsOn(p) ==
    /\ CheckHostStatus(p)
    /\ ~matchmakingComplete[p]
    /\ FindsEarlier(p, now')
    /\ ~Yields(p, now')

\* C26: a poll of a tab whose matchmaking is complete changes nothing of its
\* role, its opponent, the registry or the signaling messages; a poll of a
\* tab whose matchmaking is not complete that finds, next to the tab's own
\* entry, an initiator registered before it yields (the tab then becomes
\* responder, is registered as such and sends a join-request to that
\* initiator), and a poll that finds no more than one initiator leaves the
\* interval running; and an interval is stopped only by a poll that sees
\* matchmaking complete, by a poll that yields or by disconnect().
C26_PollingStep ==
    /\ [](\A p \in Tabs : pollHandle[p] => pollIntervals[p] > 0)
    /\ [](\A p \in Tabs : ~ENABLED PollsOn(p))
    /\ [][\A p \in Tabs :
            /\ (CheckHostStatus(p) /\ matchmakingComplete[p]) =>
                  /\ role'[p] = role[p] /\ opponentId'[p] = opponentId[p]
                  /\ isInitiator'[p] = isInitiator[p]
                  /\ peersData' = peersData /\ storageEvents' = storageEvents
                  /\ frame' = frame /\ emitted' = emitted
            /\ (CheckHostStatus(p) /\ ~matchmakingComplete[p]
                    /\ Cardinality(PolledAt(now')) <= 1) =>
                  /\ pollIntervals'[p] = pollIntervals[p] /\ pollHandle'[p] = pollHandle[p]
                  /\ frame' = frame /\ role'[p] = role[p]
            /\ pollIntervals'[p] < pollIntervals[p] =>
                  \/ CheckHostStatus(p) /\ (matchmakingComplete[p] \/ At(p, "pollRemove")')
                  \/ left'[p] /\ drops' = drops + 1
            /\ (At(p, "pollRemove") /\ frame'[p] # frame[p]) =>
                  /\ role'[p] = "B" /\ ~isInitiator'[p]
                  /\ opponentId'[p] = frame[p].host
                  /\ ~Registered(peersData', p)
                  /\ storageEvents' =
                        [storageEvents EXCEPT ![frame[p].host] =
                            Append(@, Message("join-request", p, frame[p].host))]
                  /\ At(p, "pollRegister")'
            /\ (At(p, "pollRegister") /\ frame'[p] # frame[p]) =>
                  /\ Len(SelectSeq(peersData'.peers, LAMBDA e : e.id = p)) = 1
                  /\ \A i \in DOMAIN peersData'.peers :
                        peersData'.peers[i].id = p =>
                            /\ peersData'.peers[i].role = "B"
                            /\ peersData'.peers[i].matchedWith = opponentId[p]]_vars

\* a confirmed initiator whose poll found an initiator registered before it
\* is yielding to that initiator
C26_YieldedAtPoll ==
    \E p, q \in Tabs :
        /\ drops = 0
        /\ At(p, "pollRemove") /\ role[p] = "A" /\ frame[p].host = q /\ role[q] = "A"
        /\ ~pollHandle[p]
        /\ \E i, j \in DOMAIN Peers :
              /\ Peers[i].id = p /\ Peers[j].id = q
              /\ Peers[i].role = "A" /\ Peers[j].role = "A"
              /\ Peers[j].timestamp < Peers[i].timestamp

----------------------------------------------------------------------------
(* The tie-break between initiators *)

\* the initiator p goes on with after a procedure that counted allHosts:
\* the earliest when p must yield, p itself otherwise
Winner(allHosts, p) ==
    IF MustYield(allHosts, p) THEN EarliestHost(allHosts).id ELSE p

\* two entries of role 'A' in the active set carry the same timestamp
TiedInitiators ==
    \E i, j \in PolledAt(now) : i # j /\ Peers[i].timestamp = Peers[j].timestamp

\* C27: whenever the active set holds initiators with equal timestamps, the
\* winner an initiator's verification chooses from the registry is the
\* winner its poll chooses from the same registry at the same time.
C27_SameWinner ==
    \A p \in Tabs :
        (TiedInitiators /\ role[p] = "A" /\ ~matchmakingComplete[p] /\ At(p, "idle")) =>
            Winner(VerifyHosts(Peers, now), p) = Winner(PollHosts(Peers, now), p)

----------------------------------------------------------------------------
(* The liveness window *)

\* entry i of the registry is active and stamped less than 10 s before t
Fresh(i, t) == Peers[i].active /\ t - Peers[i].timestamp < LivenessWindow

\* the fresh entries of initiators looking for a match
FreshLooking(t) ==
    {i \in DOMAIN Peers : Fresh(i, t) /\ Peers[i].role = "A" /\ Peers[i].lookingForMatch}

\* the fresh entries of initiators
FreshInitiators(t) == {i \in DOMAIN Peers : Fresh(i, t) /\ Peers[i].role = "A"}

\* C28: an entry stamped 10 s or more before the registry is read, or not
\* active, is not used: electLeader takes the tab's role from a fresh entry
\* of the tab only, joins a fresh looking initiator only, and becomes host
\* when no fresh looking initiator exists; verification demotes only towards
\* a fresh looking initiator and only when more than one is fresh; a poll
\* yields only towards a fresh initiator and only when more than one is
\* fresh; and none of these steps emits an event.
C28_LivenessWindow ==
    [][\A p \in Tabs :
        /\ (calls' = calls + 1 /\ At(p, "idle") /\ frame'[p] # frame[p]) =>
              /\ At(p, "joinAsGuest")' =>
                    \E i \in FreshLooking(now') : Peers[i].id = frame'[p].host
              /\ At(p, "becomeHost")' => FreshLooking(now') = {}
              /\ \A i \in DOMAIN Peers : Peers[i].id = p => ~Fresh(i, now')
              /\ emitted' = emitted
        /\ (calls' = calls + 1 /\ At(p, "idle") /\ role'[p] # role[p]) =>
              /\ \E i \in DOMAIN Peers :
                    Fresh(i, now') /\ Peers[i].id = p /\ Peers[i].role = role'[p]
              /\ emitted' = emitted
        /\ Verifies(p) =>
              /\ At(p, "switchToGuest")' =>
                    /\ \E i \in FreshLooking(now') : Peers[i].id = frame'[p].host
                    /\ Cardinality(FreshLooking(now')) > 1
              /\ Cardinality(FreshLooking(now')) <= 1 => frame'[p] = frame[p] /\ pollHandle'[p]
              /\ emitted' = emitted
        /\ (At(p, "idle") /\ At(p, "pollRemove")') =>
              /\ \E i \in FreshInitiators(now') : Peers[i].id = frame'[p].host
              /\ Cardinality(FreshInitiators(now')) > 1
              /\ emitted' = emitted]_vars

\* p2 registered as initiator 10 s or more after p1, whose entry was in the
\* registry and still is, and p2's verification has confirmed p2
C28_StaleInitiatorPassedOver ==
    /\ drops = 0
    /\ role["p1"] = "A" /\ role["p2"] = "A"
    /\ pollHandle["p2"] /\ verifyTimers["p2"] = 0
    /\ \E i, j \in DOMAIN Peers :
          /\ i < j
          /\ Peers[i].id = "p1" /\ Peers[i].role = "A" /\ Peers[i].lookingForMatch
          /\ Peers[j].id = "p2" /\ Peers[j].role = "A"
          /\ Peers[j].timestamp - Peers[i].timestamp >= LivenessWindow

----------------------------------------------------------------------------
(* The recipient filter of the shared signaling key *)

\* what tab r holds: the fields of its manager, its events, what its
\* session was handed and what the manager buffered
StateOf(r) ==
    <<role[r], opponentId[r], isInitiator[r], isSignalingConnected[r],
      matchmakingComplete[r], gameConnection[r], emitted[r], frame[r],
      handed[r], pendingOffer[r], pendingCandidates[r]>>

\* a message is queued for q in this step
IsQueuedFor(q) == Len(storageEvents'[q]) > Len(storageEvents[q])

\* C29: every message waiting for the handler of a tab names that tab as
\* its recipient; a step that writes a message queues it for one tab, the
\* recipient, which is the writer's opponent at the end of the step, and
\* changes nothing else of any tab but the writer; and a step in which a tab
\* handles a message changes no other tab.
C29_RecipientFilter ==
    /\ [](\A q \in Tabs : \A i \in DOMAIN storageEvents[q] :
              /\ storageEvents[q][i].targetPeer = q
              /\ storageEvents[q][i].fromPeer # q)
    /\ [][\A q \in Tabs :
            /\ IsQueuedFor(q) =>
                  LET message == Last(storageEvents'[q])
                  IN  /\ storageEvents'[q] = Append(storageEvents[q], message)
                      /\ message.type \in Matchmaking \cup SessionSignals
                      /\ message.targetPeer = q
                      /\ message.fromPeer \in Tabs \ {q}
                      /\ opponentId'[message.fromPeer] = q
                      /\ StateOf(q)' = StateOf(q)
                      /\ \A r \in Tabs \ {q, message.fromPeer} :
                            /\ StateOf(r)' = StateOf(r)
                            /\ storageEvents'[r] = storageEvents[r]
            /\ (storageEvents[q] # <<>> /\ storageEvents'[q] = Tail(storageEvents[q])) =>
                  \A r \in Tabs \ {q} :
                      StateOf(r)' = StateOf(r) /\ storageEvents'[r] = storageEvents[r]]_vars

\* the session of p2 was handed an offer that p1 wrote while a third tab,
\* which has called findMatch(), was listening and holds nothing of it
C29_OfferReachedOpponentOnly ==
    /\ drops = 0
    /\ handed["p2"] = <<"offer">> /\ opponentId["p1"] = "p2"
    /\ isSignalingConnected["p3"] /\ At("p3", "idle")
    /\ handed["p3"] = <<>> /\ pendingOffer["p3"] = "null" /\ storageEvents["p3"] = <<>>

----------------------------------------------------------------------------
(* The initiator's path of a session *)

\* both channel handles of c's session exist
HasChannels(c) == \A label \in Labels : dataChannels[c][label] # "null"

\* c's session hands an offer to socket.emit in this step
SendsOffer(c) ==
    /\ Len(signals'[c]) = Len(signals[c]) + 1
    /\ Last(signals'[c]) = "offer"

\* C30: a session that has an offer in preparation or has sent one was
\* created as initiator and has both its channels, 'game_reliable' ordered
\* and 'game_unreliable' unordered with no retransmits; the step that sends
\* the offer puts it, as a signal from the sender, into the messages of the
\* sender's opponent; the channels of an initiator appear in the step that
\* creates its peer connection, and a channel of a responder appears only
\* later, when a channel the initiator created is announced to it.
C30_InitiatorPath ==
    /\ [](\A c \in Players :
              (Handling(c, "createAndSendOffer") \/ Sent(c, "offer")) =>
                  connInitiator[c] /\ isInitiator[c] /\ HasChannels(c))
    /\ [](/\ ChannelOptions.game_reliable.ordered
          /\ ~ChannelOptions.game_unreliable.ordered
          /\ ChannelOptions.game_unreliable.maxRetransmits = 0
          /\ DOMAIN ChannelOptions = Labels)
    /\ [][\A c \in Players :
            /\ SendsOffer(c) =>
                  /\ connInitiator[c] /\ HasChannels(c)
                  /\ opponentId[c] \in Players \ {c}
                  /\ outbox' = [outbox EXCEPT ![opponentId[c]] =
                                   Append(@, SignalMessage(c, "offer"))]
            /\ \A label \in Labels :
                  (dataChannels[c][label] = "null" /\ dataChannels'[c][label] # "null") =>
                      IF connInitiator'[c]
                      THEN peerConnection[c] = "null" /\ HasChannels(c)'
                      ELSE /\ peerConnection[c] = "open"
                           /\ \E o \in Players \ {c} :
                                 connInitiator[o] /\ dataChannels[o][label] # "null"]_vars

\* the responder holds the initiator's offer as remote description and has
\* no channel yet
C30_OfferAtResponder ==
    \E c, o \in Players :
        /\ connInitiator[o] /\ Sent(o, "offer") /\ HasChannels(o)
        /\ ~connInitiator[c] /\ peerConnection[c] = "open"
        /\ remoteDescription[c] = "offer"
        /\ dataChannels[c] = NoChannels

----------------------------------------------------------------------------
(* The responder path *)

Answers(s) == Len(SelectSeq(s, LAMBDA m : m = "answer"))

\* handleOffer of p is past its setRemoteDescription
Answering(p) ==
    \E i \in DOMAIN tasks[p] :
        /\ tasks[p][i].handler = "handleOffer"
        /\ tasks[p][i].awaits \in {"createAnswer", "setLocalDescription"}

\* C31: a handleOffer call that is producing or setting its answer has
\* installed the offer as remote description; an answer is sent only in the
\* step in which setLocalDescription(answer) of a handleOffer call has
\* settled, with the answer as local description, and then exactly one; a
\* handleOffer call whose operations all succeed sends one; an arriving
\* channel is bound to the handle of its own label and to no other.
C31_ResponderPath ==
    /\ [](\A p \in Participants : Answering(p) => remoteDescription[p] = "offer")
    /\ [][\A p \in Participants :
            /\ Answers(signals'[p]) # Answers(signals[p]) =>
                  /\ tasks[p] # <<>>
                  /\ Head(tasks[p]) = Task("handleOffer", "setLocalDescription")
                  /\ signals'[p] = Append(signals[p], "answer")
                  /\ remoteDescription[p] = "offer"
                  /\ localDescription'[p] = "answer"
            /\ (/\ Resume(p, TRUE)
                /\ Head(tasks[p]) = Task("handleOffer", "setLocalDescription"))
                   => Answers(signals'[p]) = Answers(signals[p]) + 1
            /\ \A label \in Labels :
                  (dataChannels[p][label] = "null" /\ dataChannels'[p][label] # "null")
                      => /\ \A other \in Labels \ {label} :
                               dataChannels'[p][other] = dataChannels[p][other]
                               \/ connInitiator'[p]
                         /\ dataChannels'[p][label] = "connecting"]_vars

\* a responder answered one offer and holds both channels of the initiator
C31_AnsweredWithChannels ==
    /\ ~connInitiator[Owner]
    /\ peerConnection[Owner] = "open"
    /\ remoteDescription[Owner] = "offer"
    /\ localDescription[Owner] = "answer"
    /\ signals[Owner] = <<"answer">>
    /\ \A label \in Labels : dataChannels[Owner][label] = "connecting"
    /\ tasks[Owner] = <<>>

----------------------------------------------------------------------------
(* The buffers of a manager without session *)

\* the candidates handed to the session of c, in the order they were handed
HandedTo(c) ==
    queued[c] \o SelectSeq(applied[c], LAMBDA k : k \notin Elements(queued[c]))

\* the buffered candidates connectToGame() of c has not handed on yet
Kept(c) ==
    IF connecting[c].at = "candidates"
    THEN SubSeq(pendingCandidates[c], connecting[c].next, Len(pendingCandidates[c]))
    ELSE pendingCandidates[c]

Occurrences(s, k) == Len(SelectSeq(s, LAMBDA e : e = k))

\* connectToGame() of c has created the session and run to its end
ConnectEnded(c) == gameConnection[c] # "null" /\ connecting[c].at = "idle"

\* C32: a candidate that arrived is in the manager's buffer or was handed to
\* the session, exactly once; an offer that arrives at a manager without
\* session is kept; connectToGame() hands the buffered offer of a responder
\* to the session it created before any buffered candidate, then the
\* buffered candidates in the order they arrived, and leaves both buffers
\* empty.
C32_PendingHanded ==
    /\ [](\A c \in Players :
            /\ \A k \in 1..budget.candidates :
                  c = Owner => Occurrences(Kept(c) \o HandedTo(c), k) = 1
            /\ \A i, j \in DOMAIN pendingCandidates[c] :
                  i < j => pendingCandidates[c][i] < pendingCandidates[c][j]
            /\ connecting[c].at = "candidates" =>
                  /\ isInitiator[c] \/ pendingOffer[c] = "null"
                  /\ SelectSeq(HandedTo(c),
                               LAMBDA k : k \in Elements(pendingCandidates[c]))
                        = SubSeq(pendingCandidates[c], 1, connecting[c].next - 1)
            /\ ConnectEnded(c) =>
                  /\ pendingCandidates[c] = <<>>
                  /\ isInitiator[c] \/ pendingOffer[c] = "null")
    /\ [][\A c \in Players :
            /\ (budget.descriptions' > budget.descriptions /\ gameConnection[c] = "null"
                /\ c = Owner)
                  => pendingOffer'[c] = "offer"
            /\ (pendingOffer[c] = "offer" /\ ~isInitiator[c]
                /\ gameConnection[c] = "null" /\ gameConnection'[c] # "null")
                  => /\ HandedTo(c)' = <<>>
                     /\ connecting'[c].at = "initialized"
            /\ (connecting[c].at = "initialized" /\ connecting'[c].at # "initialized"
                /\ pendingOffer[c] = "offer" /\ ~isInitiator[c])
                  => /\ tasks'[c] = Append(tasks[c], Task("handleOffer", "setRemoteDescription"))
                     /\ HandedTo(c)' = HandedTo(c)
            /\ (pendingOffer[c] = "offer" /\ pendingOffer'[c] = "null")
                  => /\ connecting[c].at = "handleOffer"
                     /\ Elements(HandedTo(c)) \cap Elements(pendingCandidates[c]) = {}]_vars

\* a responder buffered the offer and two candidates during the import; a
\* third candidate arrived while the buffered offer was handled; all were
\* handed to the session and the buffers are empty
C32_BufferedThenHanded ==
    /\ ~isInitiator[Owner]
    /\ ConnectEnded(Owner)
    /\ remoteDescription[Owner] = "offer"
    /\ queued[Owner] = <<3>>
    /\ applied[Owner] = <<3, 1, 2>>
    /\ pendingOffer[Owner] = "null"
    /\ pendingCandidates[Owner] = <<>>

----------------------------------------------------------------------------
(* The guards of connectToGame() *)

\* the game calls connectToGame() of c in this step
CallsConnect(c) == c = Owner /\ budget.connects' = budget.connects + 1

\* C33: a connectToGame() call of a manager without recorded opponent, or of
\* a manager whose session exists and reports isConnected = true, starts no
\* import (no session is created), closes nothing, sends nothing and starts
\* no offer, and leaves the session, its channels, the pending buffers and
\* the emitted events as they are.
C33_GuardedConnect ==
    [][\A c \in Players :
        (/\ CallsConnect(c)
         /\ \/ opponentId[c] = None
            \/ gameConnection[c] # "null" /\ isConnected[c])
            => /\ UNCHANGED <<gameConnection, connecting>>
               /\ UNCHANGED <<peerVars, channelVars, queueVars, connInitiator>>
               /\ UNCHANGED <<signals, tasks, lifecycle, raised>>
               /\ UNCHANGED <<pendingOffer, pendingCandidates>>]_vars

\* connectToGame() was called on an initiator whose reliable channel was
\* open and whose offer was buffered by nobody: the session of the match is
\* the session it still has
C33_CalledWhileConnected ==
    /\ budget.connects = 1
    /\ opponentId[Owner] = "p2"
    /\ gameConnection[Owner] = "open"
    /\ isConnected[Owner]
    /\ dataChannels[Owner].game_reliable = "open"
    /\ signals[Owner] = <<"offer">>
    /\ localDescription[Owner] = "offer"
    /\ connecting[Owner].at = "idle"

----------------------------------------------------------------------------
(* Values that are no message *)

\* the listener of connection c is given a value that is no message
DropsFrame(c) ==
    /\ readyState[c] = "OPEN" /\ readyState'[c] = "OPEN"
    /\ outbox[c] # <<>>
    /\ Head(outbox[c]) \in NoMessage
    /\ outbox'[c] = Tail(outbox[c])

\* the 'storage' listener of tab p is given a value that is no message
DropsEvent(p) ==
    /\ storageEvents[p] # <<>>
    /\ Head(storageEvents[p]) \in NoMessage
    /\ storageEvents'[p] = Tail(storageEvents[p])

\* C34: a value that is no message (a text that fails to parse, or the null
\* of the cleared signaling key) given to the server, to the listener of a
\* WebSocket client or to the 'storage' listener of a tab changes nothing of
\* the managers, the registry, the server's tables, the sessions and the
\* events emitted, and puts no message in anybody's queue; a message that
\* waits at a listener afterwards can be handled.
C34_MalformedDropped ==
    /\ [][/\ budget.malformed' # budget.malformed =>
                UNCHANGED <<mgrVars, localVars, relayVars>>
          /\ \A c \in Connections :
                DropsFrame(c) =>
                    /\ UNCHANGED <<mgrVars, localVars, serverVars, readyState,
                                   socketEvents, arrivals, peerId, emits, drops,
                                   sessionVars>>
                    /\ \A d \in Connections \ {c} : outbox'[d] = outbox[d]
          /\ \A p \in Tabs :
                DropsEvent(p) =>
                    /\ UNCHANGED <<mgrVars, peersData, frame, timerVars, stampVars,
                                   relayVars, sessionVars>>
                    /\ \A q \in Tabs \ {p} : storageEvents'[q] = storageEvents[q]]_vars
    /\ [](\A c \in Connections :
            (Waits(c) /\ Reaches(Head(outbox[c])))
                => ENABLED (OnSocketMessage(c) /\ UNCHANGED sessionVars))
    /\ [](\A p \in Tabs :
            (At(p, "idle") /\ storageEvents[p] # <<>> /\ Reaches(Head(storageEvents[p])))
                => ENABLED (OnStorageEvent(p) /\ UNCHANGED sessionVars))

\* the server and a client were each given a value that is no message, all
\* of it was handled, and a pair was matched
C34_DroppedAndMatched ==
    /\ transport = "websocket"
    /\ budget.malformed = 1
    /\ budget.garbled = 1
    /\ Silent
    /\ \E c, d \in Connections :
          /\ c # d
          /\ emitted[c] # <<>> /\ emitted[d] # <<>>
          /\ opponentId[c] = d /\ opponentId[d] = c

----------------------------------------------------------------------------
(* The opponents the server records *)

\* C35: for any two connections in the server's table, the opponent
\* recorded for the one is the other exactly when the opponent recorded for
\* the other is the one.
C35_OpponentSymmetry ==
    \A a, b \in Connections :
        (InClients(a) /\ InClients(b) /\ a # b)
            => (client[a].opponentId = b <=> client[b].opponentId = a)

\* C36: the waiting slot is empty or holds a connection that is in the
\* server's table.
C36_WaitingSlotValid == waitingClient # None => InClients(waitingClient)

\* the connection that left
Leaver(c) ==
    /\ socketEvents[c] # <<>>
    /\ Head(socketEvents[c]) = "close"
    /\ clients' = Deleted(c)

\* C37: when the close handler of a connection runs, a connection that is
\* sent peer-disconnected records the leaver as its opponent.
C37_NotificationTargeted ==
    [][\A c, d \in Connections :
        (Leaver(c) /\ outbox'[d] = Append(outbox[d], PeerDisconnected))
            => client[d].opponentId = c]_vars

----------------------------------------------------------------------------
(* The match of a tab *)

\* p has emitted match_found and has not called disconnect() since
Matched(p) == matchmakingComplete[p] /\ frame[p].pc \notin {"accept", "disconnect"}

\* C38: the role, isInitiator and opponentId of a tab that has emitted
\* match_found and has not called disconnect() since stay as they are.
C38_MatchStable ==
    [][\A p \in Tabs :
        Matched(p) => /\ role'[p] = role[p]
                      /\ isInitiator'[p] = isInitiator[p]
                      /\ opponentId'[p] = opponentId[p]]_vars

\* p decides in this step to become a responder of the initiator h
Demotes(p, h) ==
    /\ frame[p].pc = "idle"
    /\ frame'[p].pc \in {"switchToGuest", "pollRemove"}
    /\ frame'[p].host = h

\* C39: the initiator a tab yields to, in its verification or in a poll, has
\* an entry in the registry the tab read that is still looking for a match.
C39_DemotionTarget ==
    [][\A p, h \in Tabs :
        Demotes(p, h) =>
            \E i \in DOMAIN Peers :
                /\ Peers[i].id = h
                /\ Peers[i].role = "A"
                /\ Peers[i].lookingForMatch]_vars

----------------------------------------------------------------------------
(* The order of all candidates of a session *)

\* C40: the candidates of a session, numbered in the order they were handed
\* to handleCandidate, are applied in that order.
C40_AppliedInArrivalOrder ==
    \A p \in Participants :
        \A i, j \in DOMAIN applied[p] : i < j => applied[p][i] < applied[p][j]

============================================================================
